---- MODULE Spec2Model ----
(***************************************************************************)
(* State-machine model of the UniFi controller client (package network,     *)
(* src/cloudkey.go): controller detection, login and session cache,        *)
(* speedtest archive fetch with re-authentication on 401, response         *)
(* normalisation and the 24h result cache.                                 *)
(*                                                                         *)
(* Time is in milliseconds.  Strings are TLA+ strings, a nil pointer is    *)
(* the empty sequence and a non-nil pointer to r is <<r>>.  float64 speed  *)
(* values are modelled by integers.                                        *)
(***************************************************************************)
EXTENDS Integers, Sequences, FiniteSets, TLC

VARIABLES
    client,     \* "nil" before / after a failed construction, "ok" once NewUDMProClient returned a client
    IsUniFiOS,  \* UDMProClient.IsUniFiOS
    AuthToken,  \* UDMProClient.AuthToken
    CSRFToken,  \* UDMProClient.CSRFToken
    session,    \* UDMProClient.session : [AuthToken, CSRFToken, Expires]
    cache,      \* UDMProClient.cache   : [Result, Timestamp] (TTL is the constant TTL)
    now,        \* the wall clock, time.Now() in ms
    pc,         \* position of the caller: "idle", in a call at "fetch" or "relogin",
                \* "done" when the call has returned, "panic" when it crashed
    op,         \* the public operation that is running ("" when idle)
    depth,      \* number of GetSpeedtestResultsInRange frames of the running call
    range,      \* [start, end] arguments of the running GetSpeedtestResultsInRange
    reqs,       \* requests sent by the running call, in order
    ret,        \* what the call returned (read when pc = "done")
    archive,    \* the body the gateway holds as its answer to an archive request, in
                \* the specification that fixes it (NoBody where the answer is free)
    loginAnswer,\* the answer the gateway holds for a login request, in the
                \* specification that fixes it (NoAnswer where the answer is free)
    mbps,       \* argument of FormatSpeed, in hundredths of a Mbps
    formatted,  \* what FormatSpeed returned: <<[whole, tenth, unit]>>, <<>> before the call
    cpuPercent,     \* last CPU usage the health monitor sampled
    memPercent,     \* last RAM usage the health monitor sampled
    currentHealth,  \* display.currentHealth
    hasUDMError,    \* display.hasUDMError
    leds,           \* the files under /sys/class/leds of the three rack LEDs
    monitorPc,      \* position of the health monitor goroutine: "off", "sample", "update"
    callers,        \* position and locals of each concurrent caller of the client
    cacheMutex,     \* UDMProClient.cacheMutex : [w: the writer (0: none), r: the readers]
    accesses,       \* the accesses to shared client state made by the last step
    screenPc,           \* position of the speedtest screen's goroutine: "off", "poll",
                        \* "login", "fetch", "relogin", "panic"
    lastResult,         \* buildSpeedTest's local lastResult (Nil or a pointer)
    lastFetchTime,      \* buildSpeedTest's local lastFetchTime
    lastKnownTimestamp, \* buildSpeedTest's local lastKnownTimestamp
    dmsg,               \* first line of the speedtest screen
    umsg,               \* second line of the speedtest screen
    tmsg,               \* third line of the speedtest screen
    polled              \* what GetUDMProSpeedtest returned to the last iteration

clientVars == <<client, IsUniFiOS, AuthToken, CSRFToken, session, cache, now,
                pc, op, depth, range, reqs, ret, archive, loginAnswer>>
formatVars == <<mbps, formatted>>
healthVars == <<cpuPercent, memPercent, currentHealth, hasUDMError, leds, monitorPc>>
lockVars == <<callers, cacheMutex, accesses>>
screenVars == <<screenPc, lastResult, lastFetchTime, lastKnownTimestamp, dmsg, umsg, tmsg, polled>>

vars == <<client, IsUniFiOS, AuthToken, CSRFToken, session, cache, now,
          pc, op, depth, range, reqs, ret, archive, loginAnswer,
          formatVars, healthVars, lockVars, screenVars>>

\* the parts of the program a specification does not run
NotFormatting == mbps = 0 /\ formatted = <<>>
MonitorOff ==
    /\ cpuPercent = 0 /\ memPercent = 0
    /\ currentHealth = "HealthOK" /\ hasUDMError = FALSE /\ leds = <<>>
    /\ monitorPc = "off"
SingleCaller == callers = <<>> /\ cacheMutex = [w |-> 0, r |-> {}] /\ accesses = {}
ScreenOff ==
    /\ screenPc = "off"
    /\ lastResult = <<>> /\ lastFetchTime = 0 /\ lastKnownTimestamp = 0
    /\ dmsg = "" /\ umsg = "" /\ tmsg = ""
    /\ polled = [result |-> <<>>, err |-> [chain |-> <<>>, status |-> 0, text |-> ""]]

----------------------------------------------------------------------------
(* Bounds of the model *)

MaxDepth == 3
MaxCookies == 1
MaxData == 1
MaxSamples == 3
\* the speeds formatted lie within this many hundredths of a Mbps of 1000 Mbps
SpeedMargin == 60
\* the usages sampled lie within this many percent of a threshold (or are 0 or 100)
UsageMargin == 1

----------------------------------------------------------------------------
(* Program constants *)

TTL == 24 * 60 * 60 * 1000
SessionLifetime == 8 * 60 * 60 * 1000
DefaultWindow == 24 * 60 * 60 * 1000

StatusOK == 200
StatusUnauthorized == 401
StatusTooManyRequests == 429

Nil == <<>>
Ptr(r) == <<r>>
Deref(p) == p[1]

\* An error value: kind is the format string of its message, status and
\* text the values formatted into it, inner the kind of the error it wraps.
NoError == [kind |-> "", status |-> 0, text |-> "", inner |-> ""]
Err(k) == [kind |-> k, status |-> 0, text |-> "", inner |-> ""]
ErrStatus(k, s) == [kind |-> k, status |-> s, text |-> "", inner |-> ""]
ErrText(k, s, t) == [kind |-> k, status |-> s, text |-> t, inner |-> ""]
\* fmt.Errorf("...: %v", err): the outer message followed by the wrapped one
Wrap(k, e) == [kind |-> k, status |-> e.status, text |-> e.text, inner |-> e.kind]

----------------------------------------------------------------------------
(* The gateway's possible answers (inputs of the model) *)

\* Cookie values.  "jwtA", "jwtB", "jwtU", "jwtX" and "jwtN" are three-part
\* dot-delimited tokens whose middle part base64url-decodes to a JSON object:
\* {"csrfToken":"abc"}, {"csrfToken":"csrf-0123456789"}, {"csrf_token":"abc"},
\* {"xsrfToken":"abc"} and {} ; "opaque" has no dot.
TokenValues == {"", "jwtA", "jwtB", "jwtN", "opaque"}
CookieNames == {"TOKEN", "unifises"}
Cookies == [Name : CookieNames, Value : TokenValues]
CookieLists == UNION {[1..n -> Cookies] : n \in 0..MaxCookies}

\* The cookie values of the specification of Login alone.  Further objects:
\* "jwtE" {"csrfToken":"","csrf_token":"xyz","token":"abc"},
\* "jwtT" {"csrfToken":5,"csrf_token":null,"xsrfToken":"xyz","token":"abc"},
\* "jwtM" {"csrf_token":"abc","xsrfToken":"xyz","sub":"admin"},
\* "jwtK" {"csrfToken":true,"token":"xyz"},
\* "jwtS" {"csrfToken":"","token":7,"sub":"admin"}.
\* Malformed tokens: "jwt2" and "jwt4" have two and four parts; the middle
\* part of "jwtBad64" is not base64, that of "jwtLen1" has a length of 1
\* modulo 4, that of "jwtNotJSON" decodes to bytes that are no JSON, that of
\* "jwtArray" to [] and that of "jwtNull" to null.
WellFormedTokens == {"jwtA", "jwtB", "jwtN", "jwtU", "jwtX", "jwtE", "jwtT", "jwtM", "jwtK", "jwtS"}
MalformedTokens == {"opaque", "jwt2", "jwt4", "jwtBad64", "jwtLen1", "jwtNotJSON", "jwtArray", "jwtNull"}
LoginTokenValues == TokenValues \cup WellFormedTokens \cup MalformedTokens
LoginCookieLists ==
    CookieLists \cup {<<[Name |-> n, Value |-> v]>> : n \in CookieNames, v \in LoginTokenValues}

LoginStatuses == {200, 429, 403}
\* a refused login still carries a cookie
RefusedCookies == <<[Name |-> "TOKEN", Value |-> "jwtB"], [Name |-> "unifises", Value |-> "opaque"]>>
LoginResponses ==
    {[err |-> TRUE, status |-> 0, cookies |-> <<>>]} \cup
    [err : {FALSE}, status : LoginStatuses \ {200}, cookies : {RefusedCookies}] \cup
    [err : {FALSE}, status : {200}, cookies : CookieLists]

NoAnswer == [err |-> TRUE, status |-> 0, cookies |-> <<>>]

\* the answers to a login in the specification of Login alone
LoginSpecResponses ==
    {r \in LoginResponses : r.err \/ r.status # 200} \cup
    [err : {FALSE}, status : {200}, cookies : LoginCookieLists]

ProbeErrors == {"timeout", "deadline exceeded", "connection refused", "no such host", "other"}
ProbeResponses ==
    [err : ProbeErrors, status : {0}] \cup [err : {""}, status : {200, 302, 404}]

----------------------------------------------------------------------------
(* NewUDMProClient / detectControllerType *)

\* mutant: a host that is not found reported as a refused connection
detectErrorHostAsRefused(e) ==
    IF e = "timeout" \/ e = "deadline exceeded" THEN Err("network timeout - cannot reach UDM Pro")
    ELSE IF e = "connection refused" \/ e = "no such host"
         THEN Err("connection refused - UDM Pro is not accessible")
    ELSE Err("failed to detect controller type")

\* strings.Contains(err.Error(), ...) chain of detectControllerType
detectError(e) ==
    IF e = "timeout" \/ e = "deadline exceeded" THEN Err("network timeout - cannot reach UDM Pro")
    ELSE IF e = "connection refused" THEN Err("connection refused - UDM Pro is not accessible")
    ELSE IF e = "no such host" THEN Err("host not found - invalid UDM Pro address")
    ELSE Err("failed to detect controller type")

\* mutant: every status below 400 is taken for UniFi OS
detectControllerTypeAnySuccess(probe) ==
    IF probe.err # ""
    THEN [err |-> detectError(probe.err), IsUniFiOS |-> FALSE]
    ELSE [err |-> NoError, IsUniFiOS |-> (probe.status < 400)]

\* [err, IsUniFiOS] of the root probe
detectControllerType(probe) ==
    IF probe.err # ""
    THEN [err |-> detectError(probe.err), IsUniFiOS |-> FALSE]
    ELSE [err |-> NoError, IsUniFiOS |-> (probe.status = StatusOK)]

NewSession == [AuthToken |-> "", CSRFToken |-> "", Expires |-> now]
NewCache == [Result |-> Nil, Timestamp |-> 0]

NewUDMProClient(probe) ==
    /\ client = "nil" /\ pc = "idle"
    /\ LET d == detectControllerType(probe) IN
         IF d.err # NoError
         THEN /\ ret' = [op |-> "NewUDMProClient", err |-> Wrap("failed to detect controller type", d.err),
                         result |-> Nil]
              /\ UNCHANGED <<client, IsUniFiOS, session, cache>>
         ELSE /\ client' = "ok"
              /\ IsUniFiOS' = d.IsUniFiOS
              /\ session' = NewSession
              /\ cache' = NewCache
              /\ ret' = [op |-> "NewUDMProClient", err |-> NoError, result |-> Nil]
    /\ reqs' = <<[kind |-> "probe", method |-> "GET", url |-> "/", csrf |-> "",
                   start |-> 0, end |-> 0]>>
    /\ pc' = "done"
    /\ UNCHANGED <<AuthToken, CSRFToken, now, op, depth, range, archive, loginAnswer>>
    /\ UNCHANGED <<formatVars, healthVars, lockVars, screenVars>>

----------------------------------------------------------------------------
(* Session cache *)

\* mutants: the expiry instant counted as valid; the expiry not looked at
isSessionValidInclusive ==
    session.AuthToken # "" /\ now <= session.Expires

isSessionValidNoExpiry ==
    session.AuthToken # ""

isSessionValid ==
    session.AuthToken # "" /\ now < session.Expires

\* mutant: the session given the lifetime of the result cache
cacheSessionDay(auth, csrf) ==
    [AuthToken |-> auth, CSRFToken |-> csrf, Expires |-> now + TTL]

\* the session after cacheSession() ran with the client fields auth, csrf
cacheSession(auth, csrf) ==
    [AuthToken |-> auth, CSRFToken |-> csrf, Expires |-> now + SessionLifetime]

----------------------------------------------------------------------------
(* extractCSRFToken *)

\* len(strings.Split(tok, "."))
JWTParts(tok) ==
    CASE tok \in {"", "opaque"} -> 1
      [] tok = "jwt2" -> 2
      [] tok = "jwt4" -> 4
      [] OTHER -> 3

\* The middle part of a three-part token: whether its characters are of the
\* base64 alphabets, its length modulo 4, and the JSON value its bytes are.
JWTPayload(tok) ==
    CASE tok = "jwtBad64"   -> [base64 |-> FALSE, mod4 |-> 0, json |-> "invalid"]
      [] tok = "jwtLen1"    -> [base64 |-> TRUE,  mod4 |-> 1, json |-> "invalid"]
      [] tok = "jwtNotJSON" -> [base64 |-> TRUE,  mod4 |-> 0, json |-> "invalid"]
      [] tok = "jwtArray"   -> [base64 |-> TRUE,  mod4 |-> 2, json |-> "array"]
      [] tok = "jwtNull"    -> [base64 |-> TRUE,  mod4 |-> 3, json |-> "null"]
      [] tok = "jwtA"       -> [base64 |-> TRUE,  mod4 |-> 2, json |-> "object"]
      [] tok = "jwtB"       -> [base64 |-> TRUE,  mod4 |-> 3, json |-> "object"]
      [] OTHER              -> [base64 |-> TRUE,  mod4 |-> 0, json |-> "object"]

\* the length modulo 4 of the payload after the padding fix
PaddedMod4(m) == IF m \in {2, 3} THEN 0 ELSE m

\* base64.StdEncoding.DecodeString returns no error
Base64Decodes(p) == p.base64 /\ PaddedMod4(p.mod4) = 0

\* json.Unmarshal into a map[string]any returns no error: an object fills the
\* map, null leaves it nil
UnmarshalsIntoMap(p) == p.json \in {"object", "null"}

\* The fields of the JSON object the middle part decodes to, as the set of
\* its <<field, type, value>> triples (empty for null).
JWTData(tok) ==
    CASE tok = "jwtA" -> {<<"csrfToken", "string", "abc">>}
      [] tok = "jwtB" -> {<<"csrfToken", "string", "csrf-0123456789">>}
      [] tok = "jwtU" -> {<<"csrf_token", "string", "abc">>}
      [] tok = "jwtX" -> {<<"xsrfToken", "string", "abc">>}
      [] tok = "jwtE" -> {<<"csrfToken", "string", "">>, <<"csrf_token", "string", "xyz">>,
                          <<"token", "string", "abc">>}
      [] tok = "jwtT" -> {<<"csrfToken", "number", "5">>, <<"csrf_token", "null", "">>,
                          <<"xsrfToken", "string", "xyz">>, <<"token", "string", "abc">>}
      [] tok = "jwtM" -> {<<"csrf_token", "string", "abc">>, <<"xsrfToken", "string", "xyz">>,
                          <<"sub", "string", "admin">>}
      [] tok = "jwtK" -> {<<"csrfToken", "bool", "true">>, <<"token", "string", "xyz">>}
      [] tok = "jwtS" -> {<<"csrfToken", "string", "">>, <<"token", "number", "7">>,
                          <<"sub", "string", "admin">>}
      [] OTHER -> {}

possibleFields == <<"csrfToken", "csrf_token", "xsrfToken", "token">>

RECURSIVE FindCSRFFirstPresent(_, _)
\* mutant: the first candidate that exists is taken, whatever its value
FindCSRFFirstPresent(data, i) ==
    IF i > Len(possibleFields) THEN ""
    ELSE LET hits == {p \in data : p[1] = possibleFields[i]} IN
         IF hits # {} THEN (CHOOSE p \in hits : TRUE)[3]
         ELSE FindCSRFFirstPresent(data, i + 1)

RECURSIVE FindCSRF(_, _)
\* the loop over possibleFields from index i: the first non-empty string value, "" if none
FindCSRF(data, i) ==
    IF i > Len(possibleFields) THEN ""
    ELSE LET hits == {p \in data : p[1] = possibleFields[i] /\ p[2] = "string" /\ p[3] # ""} IN
         IF hits # {} THEN (CHOOSE p \in hits : TRUE)[3]
         ELSE FindCSRF(data, i + 1)

\* [err, CSRFToken] after extractCSRFToken() ran with c.AuthToken = auth, c.CSRFToken = csrf
extractCSRFToken(isOS, auth, csrf) ==
    IF ~isOS \/ auth = "" THEN [err |-> NoError, CSRFToken |-> csrf]
    ELSE IF JWTParts(auth) # 3
    THEN [err |-> Err("invalid JWT format - expected 3 parts"), CSRFToken |-> csrf]
    ELSE IF ~Base64Decodes(JWTPayload(auth))
    THEN [err |-> Err("failed to decode JWT payload"), CSRFToken |-> csrf]
    ELSE IF ~UnmarshalsIntoMap(JWTPayload(auth))
    THEN [err |-> Err("failed to parse JWT payload"), CSRFToken |-> csrf]
    ELSE LET found == FindCSRF(JWTData(auth), 1) IN
         [err |-> NoError, CSRFToken |-> IF found # "" THEN found ELSE csrf]

----------------------------------------------------------------------------
(* Login *)

loginURL == IF IsUniFiOS THEN "/api/auth/login" ELSE "/api/login"

LoginRequestRec ==
    [kind |-> "login", method |-> "POST", url |-> loginURL, csrf |-> "", start |-> 0, end |-> 0]

RECURSIVE CookieLoopAnyName(_, _, _, _)
\* mutant: the cookie of either family is taken, whatever the kind of the client
CookieLoopAnyName(cookies, i, auth, csrf) ==
    IF i > Len(cookies) THEN [AuthToken |-> auth, CSRFToken |-> csrf, err |-> NoError]
    ELSE LET ck == cookies[i] IN
         IF IsUniFiOS
         THEN LET x == extractCSRFToken(IsUniFiOS, ck.Value, csrf) IN
              IF x.err # NoError
              THEN [AuthToken |-> ck.Value, CSRFToken |-> csrf,
                    err |-> Wrap("failed to extract CSRF token", x.err)]
              ELSE CookieLoopAnyName(cookies, i + 1, ck.Value, x.CSRFToken)
         ELSE CookieLoopAnyName(cookies, i + 1, ck.Value, csrf)

RECURSIVE CookieLoop(_, _, _, _)
\* the loop over resp.Cookies() from index i; [AuthToken, CSRFToken, err]
CookieLoop(cookies, i, auth, csrf) ==
    IF i > Len(cookies) THEN [AuthToken |-> auth, CSRFToken |-> csrf, err |-> NoError]
    ELSE LET ck == cookies[i] IN
         IF IsUniFiOS /\ ck.Name = "TOKEN"
         THEN LET x == extractCSRFToken(IsUniFiOS, ck.Value, csrf) IN
              IF x.err # NoError
              THEN [AuthToken |-> ck.Value, CSRFToken |-> csrf,
                    err |-> Wrap("failed to extract CSRF token", x.err)]
              ELSE CookieLoop(cookies, i + 1, ck.Value, x.CSRFToken)
         ELSE IF ~IsUniFiOS /\ ck.Name = "unifises"
         THEN CookieLoop(cookies, i + 1, ck.Value, csrf)
         ELSE CookieLoop(cookies, i + 1, auth, csrf)

\* mutant: only the rate limit is refused
loginStatusErrorOnly429(status) ==
    IF status = StatusTooManyRequests
    THEN ErrStatus("login failed with status: %d (rate limited)", status)
    ELSE NoError

\* the error Login returns for the status of the login response (NoError: go on)
loginStatusError(status) ==
    IF status = StatusTooManyRequests
    THEN ErrStatus("login failed with status: %d (rate limited)", status)
    ELSE IF status # StatusOK
    THEN ErrStatus("login failed with status: %d", status)
    ELSE NoError

\* mutant: the session is cached as soon as the cookies have been read
LoginOutcomeCachesEarly(resp) ==
    IF isSessionValid
    THEN [AuthToken |-> session.AuthToken, CSRFToken |-> session.CSRFToken,
          session |-> session, err |-> NoError, sent |-> <<>>]
    ELSE LET keep(e) == [AuthToken |-> AuthToken, CSRFToken |-> CSRFToken,
                         session |-> session, err |-> e, sent |-> <<LoginRequestRec>>]
         IN
         IF resp.err THEN keep(Err("login request failed"))
         ELSE IF loginStatusError(resp.status) # NoError
         THEN keep(loginStatusError(resp.status))
         ELSE LET ck == CookieLoop(resp.cookies, 1, AuthToken, CSRFToken) IN
              [AuthToken |-> ck.AuthToken, CSRFToken |-> ck.CSRFToken,
               session |-> cacheSession(ck.AuthToken, ck.CSRFToken),
               err |-> IF ck.err # NoError THEN ck.err
                       ELSE IF ck.AuthToken = ""
                       THEN Err("no authentication token found in response")
                       ELSE NoError,
               sent |-> <<LoginRequestRec>>]

\* The whole of Login() against the gateway answer resp:
\* [AuthToken, CSRFToken, session, err, sent] where sent is the sequence of
\* requests it issued.
LoginOutcome(resp) ==
    IF isSessionValid
    THEN \* useCachedSession
         [AuthToken |-> session.AuthToken, CSRFToken |-> session.CSRFToken,
          session |-> session, err |-> NoError, sent |-> <<>>]
    ELSE LET keep(e) == [AuthToken |-> AuthToken, CSRFToken |-> CSRFToken,
                         session |-> session, err |-> e, sent |-> <<LoginRequestRec>>]
         IN
         IF resp.err THEN keep(Err("login request failed"))
         ELSE IF loginStatusError(resp.status) # NoError
         THEN keep(loginStatusError(resp.status))
         ELSE LET ck == CookieLoop(resp.cookies, 1, AuthToken, CSRFToken) IN
              IF ck.err # NoError
              THEN [AuthToken |-> ck.AuthToken, CSRFToken |-> ck.CSRFToken,
                    session |-> session, err |-> ck.err, sent |-> <<LoginRequestRec>>]
              ELSE IF ck.AuthToken = ""
              THEN [AuthToken |-> ck.AuthToken, CSRFToken |-> ck.CSRFToken,
                    session |-> session,
                    err |-> Err("no authentication token found in response"),
                    sent |-> <<LoginRequestRec>>]
              ELSE [AuthToken |-> ck.AuthToken, CSRFToken |-> ck.CSRFToken,
                    session |-> cacheSession(ck.AuthToken, ck.CSRFToken),
                    err |-> NoError, sent |-> <<LoginRequestRec>>]

\* a caller invokes Login() on an idle client
Login(resp) ==
    /\ client = "ok" /\ pc = "idle"
    /\ LET o == LoginOutcome(resp) IN
         /\ AuthToken' = o.AuthToken
         /\ CSRFToken' = o.CSRFToken
         /\ session' = o.session
         /\ reqs' = o.sent
         /\ ret' = [op |-> "Login", err |-> o.err, result |-> Nil]
    /\ pc' = "done"
    /\ UNCHANGED <<client, IsUniFiOS, cache, now, op, depth, range, archive, loginAnswer>>
    /\ UNCHANGED <<formatVars, healthVars, lockVars, screenVars>>

----------------------------------------------------------------------------
(* Result cache *)

\* mutants: the comparison with the TTL inverted; the TTL instant counted as fresh
getCachedSpeedtestInverted ==
    IF cache.Result # Nil /\ now - cache.Timestamp > TTL THEN cache.Result ELSE Nil

getCachedSpeedtestInclusive ==
    IF cache.Result # Nil /\ now - cache.Timestamp <= TTL THEN cache.Result ELSE Nil

getCachedSpeedtest ==
    IF cache.Result # Nil /\ now - cache.Timestamp < TTL THEN cache.Result ELSE Nil

\* the cache after setCachedSpeedtest(result)
setCachedSpeedtest(result) ==
    [Result |-> result, Timestamp |-> now]

----------------------------------------------------------------------------
(* Archive responses and their normalisation *)

Samples ==
    { [XputDownload |-> 50, XputUpload |-> 20, Latency |-> 5, Time |-> 100],
      [XputDownload |-> 80, XputUpload |-> 0,  Latency |-> 7, Time |-> 200],
      [XputDownload |-> 0,  XputUpload |-> 0,  Latency |-> 0, Time |-> 300] }
DataLists == UNION {[1..n -> Samples] : n \in 0..MaxData}

\* A response body.  json is the type of the top-level JSON value ("invalid"
\* when the body is no JSON object and no JSON array); for an object, rc and
\* msg are meta.rc and meta.msg, errorCode and message the v2 fields and
\* data the data array, each the zero value when the key is absent; for an
\* array, data holds its elements.
NoBody == [json |-> "invalid", rc |-> "", msg |-> "", errorCode |-> 0, message |-> "", data |-> <<>>]
MetaBodies ==
    {[json |-> "object", rc |-> m[1], msg |-> m[2], errorCode |-> 0, message |-> "", data |-> d] :
        m \in {<<"ok", "">>, <<"error", "">>, <<"error", "denied">>, <<"busy", "">>}, d \in DataLists}
V2Bodies ==
    {[json |-> "object", rc |-> "", msg |-> "", errorCode |-> m[1], message |-> m[2], data |-> d] :
        m \in {<<0, "">>, <<7, "">>, <<7, "denied">>}, d \in DataLists}
ArrayBodies ==
    {[json |-> "array", rc |-> "", msg |-> "", errorCode |-> 0, message |-> "", data |-> d] :
        d \in DataLists}
Bodies == MetaBodies \cup V2Bodies \cup ArrayBodies \cup {NoBody}

\* The archives of the specification of the normaliser alone: up to
\* MaxSamples entries, among them an entry without a measurement that is
\* newer than every measurement, an upload-only entry and two entries of one
\* timestamp; objects that carry meta.rc, errorCode, both or neither.
ArchiveSamples ==
    { [XputDownload |-> 50, XputUpload |-> 0,  Latency |-> 5, Time |-> 100],
      [XputDownload |-> 80, XputUpload |-> 0,  Latency |-> 7, Time |-> 200],
      [XputDownload |-> 0,  XputUpload |-> 0,  Latency |-> 0, Time |-> 150],
      [XputDownload |-> 0,  XputUpload |-> 0,  Latency |-> 9, Time |-> 300],
      [XputDownload |-> 0,  XputUpload |-> 30, Latency |-> 6, Time |-> 200] }
ArchiveLists == UNION {[1..n -> ArchiveSamples] : n \in 0..MaxSamples}
ArchiveBodies ==
    {[json |-> "object", rc |-> m[1], msg |-> m[2], errorCode |-> e[1], message |-> e[2], data |-> d] :
        m \in {<<"", "">>, <<"ok", "">>, <<"error", "">>, <<"error", "denied">>, <<"busy", "denied">>},
        e \in {<<0, "">>, <<7, "">>, <<7, "quota">>},
        d \in ArchiveLists} \cup
    {[json |-> "array", rc |-> "", msg |-> "", errorCode |-> 0, message |-> "", data |-> d] :
        d \in ArchiveLists} \cup
    {NoBody}

FetchResponses ==
    {[err |-> TRUE, status |-> 0, body |-> NoBody]} \cup
    [err : {FALSE}, status : {401, 403, 500}, body : {NoBody}] \cup
    [err : {FALSE}, status : {200}, body : Bodies]

convertSpeedtestResult(data) ==
    [DownloadMbps |-> data.XputDownload, UploadMbps |-> data.XputUpload,
     LatencyMs |-> data.Latency, Timestamp |-> data.Time]

RECURSIVE MostRecentLast(_, _, _)
\* mutant: the timestamps are not compared, the last measurement wins
MostRecentLast(data, i, mostRecent) ==
    IF i > Len(data) THEN mostRecent
    ELSE LET result == data[i] IN
         IF result.XputDownload > 0 \/ result.XputUpload > 0
         THEN MostRecentLast(data, i + 1, Ptr(result))
         ELSE MostRecentLast(data, i + 1, mostRecent)

RECURSIVE MostRecentNoFilter(_, _, _)
\* mutant: entries without a measurement are not skipped
MostRecentNoFilter(data, i, mostRecent) ==
    IF i > Len(data) THEN mostRecent
    ELSE LET result == data[i] IN
         IF mostRecent = Nil \/ result.Time > Deref(mostRecent).Time
         THEN MostRecentNoFilter(data, i + 1, Ptr(result))
         ELSE MostRecentNoFilter(data, i + 1, mostRecent)

RECURSIVE MostRecent(_, _, _)
\* the selection loop over data from index i, mostRecent being the pointer so far
MostRecent(data, i, mostRecent) ==
    IF i > Len(data) THEN mostRecent
    ELSE LET result == data[i] IN
         IF (result.XputDownload > 0 \/ result.XputUpload > 0)
            /\ (mostRecent = Nil \/ result.Time > Deref(mostRecent).Time)
         THEN MostRecent(data, i + 1, Ptr(result))
         ELSE MostRecent(data, i + 1, mostRecent)

\* mutant: without a measurement the parser gives up instead of reporting it
SelectFromFallsThrough(data) ==
    LET mostRecent == MostRecent(data, 1, Nil) IN
    IF mostRecent = Nil
    THEN [err |-> Err("failed to parse speedtest response in any known format"), result |-> Nil]
    ELSE [err |-> NoError, result |-> Ptr(convertSpeedtestResult(Deref(mostRecent)))]

\* selection and conversion shared by the three shapes
SelectFrom(data) ==
    LET mostRecent == MostRecent(data, 1, Nil) IN
    IF mostRecent = Nil
    THEN [err |-> Err("no valid speedtest results found (all results have zero values)"), result |-> Nil]
    ELSE [err |-> NoError, result |-> Ptr(convertSpeedtestResult(Deref(mostRecent)))]

\* json.Unmarshal into SpeedtestResponse / the v2 struct succeeds on an object,
\* into the slice on an array
UnmarshalsAsObject(body) == body.json = "object"
UnmarshalsAsArray(body) == body.json = "array"

\* mutant: only rc "error" is refused, any other rc is treated like "ok"
NormalizeOnlyRcError(body) ==
    IF UnmarshalsAsObject(body) /\ body.rc # ""
    THEN IF body.rc = "error"
         THEN [err |-> ErrText("API error: %s", 0,
                               IF body.msg # "" THEN body.msg ELSE "Unknown error from controller"),
               result |-> Nil]
         ELSE IF Len(body.data) = 0
         THEN [err |-> Err("no speedtest results found in response"), result |-> Nil]
         ELSE SelectFrom(body.data)
    ELSE IF UnmarshalsAsArray(body) /\ Len(body.data) > 0
    THEN SelectFrom(body.data)
    ELSE IF UnmarshalsAsObject(body) /\ body.errorCode # 0
    THEN [err |-> ErrText("v2 API error (code %d): %s", body.errorCode,
                          IF body.message # "" THEN body.message ELSE "Unknown error from v2 API"),
          result |-> Nil]
    ELSE IF UnmarshalsAsObject(body) /\ Len(body.data) > 0
    THEN SelectFrom(body.data)
    ELSE [err |-> Err("failed to parse speedtest response in any known format"), result |-> Nil]

\* mutant: the v2 branch looks at the data array before the error code
NormalizeDataBeforeErrorCode(body) ==
    IF UnmarshalsAsObject(body) /\ body.rc # ""
    THEN IF body.rc # "ok"
         THEN IF body.rc = "error"
              THEN [err |-> ErrText("API error: %s", 0,
                                    IF body.msg # "" THEN body.msg ELSE "Unknown error from controller"),
                    result |-> Nil]
              ELSE [err |-> ErrText("API returned status: %s", 0, body.rc), result |-> Nil]
         ELSE IF Len(body.data) = 0
         THEN [err |-> Err("no speedtest results found in response"), result |-> Nil]
         ELSE SelectFrom(body.data)
    ELSE IF UnmarshalsAsArray(body) /\ Len(body.data) > 0
    THEN SelectFrom(body.data)
    ELSE IF UnmarshalsAsObject(body) /\ Len(body.data) > 0
    THEN SelectFrom(body.data)
    ELSE IF UnmarshalsAsObject(body) /\ body.errorCode # 0
    THEN [err |-> ErrText("v2 API error (code %d): %s", body.errorCode,
                          IF body.message # "" THEN body.message ELSE "Unknown error from v2 API"),
          result |-> Nil]
    ELSE [err |-> Err("failed to parse speedtest response in any known format"), result |-> Nil]

\* [err, result] of the parsing part of GetSpeedtestResultsInRange
Normalize(body) ==
    IF UnmarshalsAsObject(body) /\ body.rc # ""
    THEN IF body.rc # "ok"
         THEN IF body.rc = "error"
              THEN [err |-> ErrText("API error: %s", 0,
                                    IF body.msg # "" THEN body.msg ELSE "Unknown error from controller"),
                    result |-> Nil]
              ELSE [err |-> ErrText("API returned status: %s", 0, body.rc), result |-> Nil]
         ELSE IF Len(body.data) = 0
         THEN [err |-> Err("no speedtest results found in response"), result |-> Nil]
         ELSE SelectFrom(body.data)
    ELSE IF UnmarshalsAsArray(body) /\ Len(body.data) > 0
    THEN SelectFrom(body.data)
    ELSE IF UnmarshalsAsObject(body) /\ body.errorCode # 0
    THEN [err |-> ErrText("v2 API error (code %d): %s", body.errorCode,
                          IF body.message # "" THEN body.message ELSE "Unknown error from v2 API"),
          result |-> Nil]
    ELSE IF UnmarshalsAsObject(body) /\ Len(body.data) > 0
    THEN SelectFrom(body.data)
    ELSE [err |-> Err("failed to parse speedtest response in any known format"), result |-> Nil]

----------------------------------------------------------------------------
(* GetSpeedtestResults / GetSpeedtestResultsInRange *)

NoRet == [op |-> "", err |-> NoError, result |-> Nil]

\* len(s) of the CSRF token strings of the model
StrLen(s) ==
    CASE s = "" -> 0
      [] s = "abc" -> 3
      [] s = "xyz" -> 3
      [] s = "csrf-0123456789" -> 15

\* mutant: the proxy prefix is left out
apiURLNoPrefix == "/api/s/{site}/stat/report/archive.speedtest"

apiURL ==
    IF IsUniFiOS THEN "/proxy/network/api/s/{site}/stat/report/archive.speedtest"
    ELSE "/api/s/{site}/stat/report/archive.speedtest"

\* http.NewRequest("GET", ...) followed by req.Method = "POST"
fetchMethod == "POST"

\* the x-csrf-token header of the archive request ("" when not set)
csrfHeader == IF IsUniFiOS /\ CSRFToken # "" THEN CSRFToken ELSE ""

\* c.CSRFToken[:10] is evaluated for the log line when the header is set
SlicePanics == IsUniFiOS /\ CSRFToken # "" /\ StrLen(CSRFToken) < 10

FetchRequestRec ==
    [kind |-> "fetch", method |-> fetchMethod, url |-> apiURL, csrf |-> csrfHeader,
     start |-> range.start, end |-> range.end]

\* mutant: the cache is written before the error is looked at
ReturnCachesAlways(e, result) ==
    /\ cache' = IF op = "GetSpeedtestResults"
                THEN setCachedSpeedtest(result) ELSE cache
    /\ ret' = [op |-> op, err |-> e, result |-> IF e = NoError THEN result ELSE Nil]
    /\ pc' = "done" /\ op' = "" /\ depth' = 0

\* the running call returns (e, result) to its caller
Return(e, result) ==
    /\ cache' = IF op = "GetSpeedtestResults" /\ e = NoError
                THEN setCachedSpeedtest(result) ELSE cache
    /\ ret' = [op |-> op, err |-> e, result |-> IF e = NoError THEN result ELSE Nil]
    /\ pc' = "done" /\ op' = "" /\ depth' = 0

\* a caller invokes GetSpeedtestResults() on an idle client
GetSpeedtestResults ==
    /\ client = "ok" /\ pc = "idle"
    /\ IF getCachedSpeedtest # Nil
       THEN /\ ret' = [op |-> "GetSpeedtestResults", err |-> NoError, result |-> getCachedSpeedtest]
            /\ pc' = "done"
            /\ UNCHANGED <<op, depth, range>>
       ELSE /\ pc' = "fetch" /\ op' = "GetSpeedtestResults" /\ depth' = 1
            /\ range' = [start |-> now - DefaultWindow, end |-> now]
            /\ ret' = ret
    /\ UNCHANGED <<client, IsUniFiOS, AuthToken, CSRFToken, session, cache, now, reqs, archive, loginAnswer>>
    /\ UNCHANGED <<formatVars, healthVars, lockVars, screenVars>>

\* mutant: every refused fetch is retried after a login
retriesAfterAnyRefusal(status) == status # StatusOK

\* the status that sends the frame into the re-authentication branch
retriesAfter(status) == status = StatusUnauthorized

\* mutant: the expiry of the cached session is left as it is
invalidatedSessionKeepsExpiry == session

\* the cached session after the 401 branch has marked it as expired
invalidatedSession == [session EXCEPT !.Expires = now]

\* one frame of GetSpeedtestResultsInRange(range.start, range.end), from
\* building the request to the handling of the gateway's answer resp
GetSpeedtestResultsInRange(resp) ==
    /\ pc = "fetch"
    /\ IF SlicePanics
       THEN /\ pc' = "panic"
            /\ UNCHANGED <<AuthToken, CSRFToken, session, cache, op, depth, reqs, ret>>
       ELSE /\ reqs' = Append(reqs, FetchRequestRec)
            /\ IF resp.err
               THEN /\ Return(Err("speedtest request failed"), Nil)
                    /\ UNCHANGED <<AuthToken, CSRFToken, session>>
               ELSE IF retriesAfter(resp.status)
               THEN /\ AuthToken' = ""
                    /\ CSRFToken' = ""
                    /\ session' = invalidatedSession
                    /\ pc' = "relogin"
                    /\ UNCHANGED <<cache, op, depth, ret>>
               ELSE IF resp.status # StatusOK
               THEN /\ Return(ErrStatus("speedtest request failed with status: %d", resp.status), Nil)
                    /\ UNCHANGED <<AuthToken, CSRFToken, session>>
               ELSE /\ LET n == Normalize(resp.body) IN Return(n.err, n.result)
                    /\ UNCHANGED <<AuthToken, CSRFToken, session>>
    /\ UNCHANGED <<client, IsUniFiOS, now, range, archive, loginAnswer>>
    /\ UNCHANGED <<formatVars, healthVars, lockVars, screenVars>>

\* mutant: the 401 branch probes the root again before it logs in
ReLoginProbesAgain(resp) ==
    /\ pc = "relogin"
    /\ depth < MaxDepth
    /\ LET o == LoginOutcome(resp) IN
         /\ AuthToken' = o.AuthToken
         /\ CSRFToken' = o.CSRFToken
         /\ session' = o.session
         /\ reqs' = Append(reqs, [kind |-> "probe", method |-> "GET", url |-> "/",
                                  csrf |-> "", start |-> 0, end |-> 0]) \o o.sent
         /\ IF o.err # NoError
            THEN Return(Wrap("re-authentication failed", o.err), Nil)
            ELSE /\ pc' = "fetch"
                 /\ depth' = depth + 1
                 /\ UNCHANGED <<cache, op, ret>>
    /\ UNCHANGED <<client, IsUniFiOS, now, range, archive, loginAnswer>>
    /\ UNCHANGED <<formatVars, healthVars, lockVars, screenVars>>

\* the Login() of the 401 branch and, when it succeeds, the recursive call
ReLogin(resp) ==
    /\ pc = "relogin"
    /\ depth < MaxDepth
    /\ LET o == LoginOutcome(resp) IN
         /\ AuthToken' = o.AuthToken
         /\ CSRFToken' = o.CSRFToken
         /\ session' = o.session
         /\ reqs' = reqs \o o.sent
         /\ IF o.err # NoError
            THEN Return(Wrap("re-authentication failed", o.err), Nil)
            ELSE /\ pc' = "fetch"
                 /\ depth' = depth + 1
                 /\ UNCHANGED <<cache, op, ret>>
    /\ UNCHANGED <<client, IsUniFiOS, now, range, archive, loginAnswer>>
    /\ UNCHANGED <<formatVars, healthVars, lockVars, screenVars>>

----------------------------------------------------------------------------
(* The clock *)

\* the instants the clock is observed at
Instants == {0, SessionLifetime - 1, SessionLifetime, TTL - 1, TTL, TTL + 1}

\* the caller takes the returned values; the next call starts with an empty
\* request log
Resume ==
    /\ pc = "done"
    /\ pc' = "idle"
    /\ reqs' = <<>>
    /\ ret' = NoRet
    /\ range' = [start |-> 0, end |-> 0]
    /\ UNCHANGED <<client, IsUniFiOS, AuthToken, CSRFToken, session, cache, now, op, depth, archive, loginAnswer>>
    /\ UNCHANGED <<formatVars, healthVars, lockVars, screenVars>>

Tick ==
    /\ pc \in {"idle", "fetch", "relogin"}
    /\ \E t \in Instants : t > now /\ now' = t
    /\ UNCHANGED <<client, IsUniFiOS, AuthToken, CSRFToken, session, cache,
                   pc, op, depth, range, reqs, ret, archive, loginAnswer>>
    /\ UNCHANGED <<formatVars, healthVars, lockVars, screenVars>>

----------------------------------------------------------------------------
(* Specification *)

Init ==
    /\ client = "nil"
    /\ IsUniFiOS = FALSE
    /\ AuthToken = ""
    /\ CSRFToken = ""
    /\ session = [AuthToken |-> "", CSRFToken |-> "", Expires |-> 0]
    /\ cache = NewCache
    /\ now = 0
    /\ pc = "idle"
    /\ op = ""
    /\ depth = 0
    /\ range = [start |-> 0, end |-> 0]
    /\ reqs = <<>>
    /\ ret = NoRet
    /\ archive = NoBody
    /\ loginAnswer = NoAnswer
    /\ NotFormatting /\ MonitorOff /\ SingleCaller /\ ScreenOff

Next ==
    \/ \E probe \in ProbeResponses : NewUDMProClient(probe)
    \/ \E resp \in LoginResponses : Login(resp)
    \/ GetSpeedtestResults
    \/ \E resp \in FetchResponses : GetSpeedtestResultsInRange(resp)
    \/ \E resp \in LoginResponses : ReLogin(resp)
    \/ Resume
    \/ Tick

Spec == Init /\ [][Next]_vars

\* Login alone, on a client that NewUDMProClient has just returned, against
\* every token payload of LoginTokenValues
LoginInit ==
    /\ client = "ok"
    /\ IsUniFiOS \in BOOLEAN
    /\ AuthToken = ""
    /\ CSRFToken = ""
    /\ session = [AuthToken |-> "", CSRFToken |-> "", Expires |-> 0]
    /\ cache = NewCache
    /\ now = 0
    /\ pc = "idle"
    /\ op = ""
    /\ depth = 0
    /\ range = [start |-> 0, end |-> 0]
    /\ reqs = <<>>
    /\ ret = NoRet
    /\ archive = NoBody
    /\ loginAnswer = NoAnswer
    /\ NotFormatting /\ MonitorOff /\ SingleCaller /\ ScreenOff

LoginNext ==
    \/ \E resp \in LoginSpecResponses : Login(resp)
    \/ Resume
    \/ Tick

LoginSpec == LoginInit /\ [][LoginNext]_vars

\* the answers 200 to a login, with every cookie list of the specification of Login
Answers200 == [err : {FALSE}, status : {StatusOK}, cookies : LoginCookieLists]

\* The cookie loop of Login alone: a client that NewUDMProClient has just
\* returned logs in, again and again as its session expires, against a
\* gateway that answers every login with the same 200 and the same cookies.
CookieInit ==
    /\ client = "ok"
    /\ IsUniFiOS \in BOOLEAN
    /\ AuthToken = ""
    /\ CSRFToken = ""
    /\ session = [AuthToken |-> "", CSRFToken |-> "", Expires |-> 0]
    /\ cache = NewCache
    /\ now = 0
    /\ pc = "idle"
    /\ op = ""
    /\ depth = 0
    /\ range = [start |-> 0, end |-> 0]
    /\ reqs = <<>>
    /\ ret = NoRet
    /\ archive = NoBody
    /\ loginAnswer \in Answers200
    /\ NotFormatting /\ MonitorOff /\ SingleCaller /\ ScreenOff

CookieNext ==
    \/ Login(loginAnswer)
    \/ Resume
    \/ Tick

CookieSpec == CookieInit /\ [][CookieNext]_vars

----------------------------------------------------------------------------
(* Observations used by the properties *)

\* number of requests of one kind in a request log
CountKind(log, k) == Cardinality({i \in DOMAIN log : log[i].kind = k})

\* this step is the entry of a GetSpeedtestResults() call
EntersGetSpeedtestResults ==
    pc = "idle" /\ (pc' = "fetch" \/ (pc' = "done" /\ ret'.op = "GetSpeedtestResults"))

\* this step sends an archive-fetch request
SendsFetch ==
    Len(reqs') = Len(reqs) + 1 /\ reqs'[Len(reqs')].kind = "fetch"

\* this step is a whole run of Login(), called by the user or by the 401 branch
RunsLogin ==
    \/ pc = "idle" /\ pc' = "done" /\ ret'.op = "Login"
    \/ pc = "relogin" /\ pc' # "relogin"

\* the error a run of Login() returned in this step (NoError on success)
LoginError ==
    IF pc = "idle" THEN ret'.err
    ELSE IF pc' = "fetch" THEN NoError
    ELSE [kind |-> ret'.err.inner, status |-> ret'.err.status, text |-> ret'.err.text, inner |-> ""]

\* this step sends a login request
SendsLogin ==
    IF pc = "idle" THEN reqs' = <<LoginRequestRec>> ELSE reqs' = Append(reqs, LoginRequestRec)

CacheIsFresh == cache.Result # Nil /\ now - cache.Timestamp < TTL

----------------------------------------------------------------------------
(* Properties *)

\* C1: within one call of the fetch operation at most two archive-fetch
\* requests and at most one login request are issued, whatever the gateway
\* answers (a second 401 ends the call).
C1_AtMostOneRetry ==
    CountKind(reqs, "fetch") <= 2 /\ CountKind(reqs, "login") <= 1

\* the fetch answers with status 200 and a body the normaliser accepts
ParsableResponses ==
    {resp \in FetchResponses :
        ~resp.err /\ resp.status = 200 /\ Normalize(resp.body).err = NoError}

\* C2: when the first fetch of a call answered 401 and the re-login succeeded
\* (the call is in its second frame) and the second fetch answers 200 with a
\* body the normaliser accepts, the call has sent exactly fetch, login, fetch
\* with one range, returns the normalised result of that second answer and
\* stores it in the result cache.
C2_RetryAfter401 ==
    [][(pc = "fetch" /\ depth = 2 /\ SendsFetch) =>
       \A resp \in ParsableResponses :
         GetSpeedtestResultsInRange(resp)
         => /\ pc' = "done"
            /\ ret' = [op |-> "GetSpeedtestResults", err |-> NoError,
                       result |-> Normalize(resp.body).result]
            /\ cache' = [Result |-> Normalize(resp.body).result, Timestamp |-> now]
            /\ Len(reqs') = 3
            /\ <<reqs'[1].kind, reqs'[2].kind, reqs'[3].kind>> = <<"fetch", "login", "fetch">>
            /\ reqs'[3].start = reqs'[1].start /\ reqs'[3].end = reqs'[1].end
            /\ reqs'[3].url = reqs'[1].url
      ]_vars

C2_Witness ==
    /\ pc = "done" /\ ret.op = "GetSpeedtestResults" /\ ret.err = NoError
    /\ Len(reqs) = 3 /\ reqs[2].kind = "login"
    /\ cache.Result = ret.result /\ cache.Timestamp = now

\* C3: no archive-fetch request is sent while the Session is invalid: a call
\* that starts with an expired (or empty) Session logs in before it fetches.
C3_LoginBeforeFetch ==
    [][SendsFetch => (session.AuthToken # "" /\ now < session.Expires)]_vars

\* C4: with a fresh result cache GetSpeedtestResults returns the cached
\* sample, sends nothing and leaves cache, Session and token fields alone.
C4_FreshCacheHit ==
    [][(EntersGetSpeedtestResults /\ CacheIsFresh)
         => /\ pc' = "done"
            /\ ret' = [op |-> "GetSpeedtestResults", err |-> NoError, result |-> cache.Result]
            /\ reqs' = <<>>
            /\ UNCHANGED <<cache, session, AuthToken, CSRFToken>>
      ]_vars

C4_Witness ==
    /\ pc = "done" /\ ret.op = "GetSpeedtestResults" /\ reqs = <<>>
    /\ ret.err = NoError /\ ret.result = cache.Result /\ cache.Result # Nil
    /\ ~(session.AuthToken # "" /\ now < session.Expires)

\* C5: the cache answers a call iff a result was stored and less than TTL
\* has elapsed since: it answers at elapsed TTL-1, not at TTL nor at TTL+1,
\* and never when nothing was stored.
C5_CacheTTL ==
    [][EntersGetSpeedtestResults
         => /\ (pc' = "done" /\ ret'.result = cache.Result)
                <=> (cache.Result # Nil /\ now - cache.Timestamp < TTL)
            /\ (pc' = "fetch") <=> (cache.Result = Nil \/ now - cache.Timestamp >= TTL)
            /\ (cache.Result # Nil /\ now - cache.Timestamp = TTL - 1) => pc' = "done"
            /\ (cache.Result # Nil /\ now - cache.Timestamp \in {TTL, TTL + 1}) => pc' = "fetch"
            /\ cache.Result = Nil => pc' = "fetch"
      ]_vars

C5_Witness ==
    /\ pc = "done" /\ ret.op = "GetSpeedtestResults" /\ reqs = <<>>
    /\ ret.result = cache.Result /\ now - cache.Timestamp = TTL - 1

\* C6: the result cache changes only in the step that ends a
\* GetSpeedtestResults call with success, where result and timestamp are
\* replaced together; a call that ends in an error leaves both as they were.
C6_CacheOnlyOnSuccess ==
    [][/\ (cache' # cache)
          => /\ pc = "fetch" /\ pc' = "done"
             /\ ret'.op = "GetSpeedtestResults" /\ ret'.err = NoError
       /\ (pc = "fetch" /\ pc' = "done" /\ ret'.err = NoError)
          => /\ ret'.result # Nil
             /\ cache' = [Result |-> ret'.result, Timestamp |-> now]
       /\ (pc' = "done" /\ ret'.err # NoError) => cache' = cache
      ]_vars

C6_Witness ==
    /\ pc = "done" /\ ret.op = "GetSpeedtestResults" /\ ret.err # NoError
    /\ cache.Result # Nil /\ cache.Timestamp < now

\* C7: Login sends a login request iff the cached Session is invalid
\* (authToken empty or now >= expiresAt); with a valid Session it succeeds
\* without a request and leaves the Session as it was.
C7_LoginIffInvalid ==
    [][RunsLogin
         => LET valid == session.AuthToken # "" /\ now < session.Expires IN
            /\ valid => /\ reqs' = (IF pc = "idle" THEN <<>> ELSE reqs)
                        /\ LoginError = NoError
                        /\ session' = session
            /\ ~valid => SendsLogin
      ]_vars

C7_Witness ==
    /\ pc = "done" /\ ret.op = "Login" /\ ret.err = NoError /\ reqs = <<>>
    /\ session.AuthToken # "" /\ now = session.Expires - 1

\* the login answers with status 200 / with another status
AcceptedLogins == {r \in LoginResponses : ~r.err /\ r.status = 200}
RefusedLogins == {r \in LoginResponses : ~r.err /\ r.status # 200}

\* the name of the cookie that carries the auth token
authCookieName == IF IsUniFiOS THEN "TOKEN" ELSE "unifises"

\* C8: a login whose 200 response carries no cookie with the auth-token name
\* fails with "no authentication token found" and caches no session, from
\* every reachable state of the client.
C8_NoCookieNoSession ==
    [][(RunsLogin /\ ~(session.AuthToken # "" /\ now < session.Expires)) =>
       \A resp \in {r \in AcceptedLogins :
                       \A i \in DOMAIN r.cookies : r.cookies[i].Name # authCookieName} :
         (Login(resp) \/ ReLogin(resp))
         => /\ LoginError.kind = "no authentication token found in response"
            /\ session' = session
      ]_vars

\* C9: a login answered 429 fails with the rate-limited error, a login
\* answered with any other status but 200 fails with the login-failed error
\* carrying the status; neither reads a cookie or caches a session.
C9_LoginStatusErrors ==
    [][(RunsLogin /\ ~(session.AuthToken # "" /\ now < session.Expires)) =>
       \A resp \in RefusedLogins :
         (Login(resp) \/ ReLogin(resp))
         => /\ LoginError.status = resp.status
            /\ LoginError.kind = (IF resp.status = 429
                                  THEN "login failed with status: %d (rate limited)"
                                  ELSE "login failed with status: %d")
            /\ UNCHANGED <<AuthToken, CSRFToken, session>>
      ]_vars

C9_Witness ==
    /\ pc = "done" /\ ret.op = "Login" /\ ret.err.status = 429
    /\ ret.err.kind = "login failed with status: %d (rate limited)"
    /\ session.AuthToken = ""

\* this step is the 401 branch of GetSpeedtestResultsInRange
Answers401 == pc = "fetch" /\ pc' = "relogin"

\* this step is a run of Login() that sent a request and succeeded
LoginSucceeds == RunsLogin /\ SendsLogin /\ LoginError = NoError

\* C10 as stated: once a login has succeeded at time t (expiresAt = t + 8h)
\* the Session is valid at every time before expiresAt.
C10_ValidUntilExpiry ==
    [][(session.AuthToken # "" /\ now < session.Expires /\ now' < session.Expires)
         => (session'.AuthToken # "" /\ now' < session'.Expires)]_vars

\* C10 amended: a successful login at time t sets expiresAt = t + 8h whatever
\* the response holds; the Session then stays valid at every time before
\* expiresAt unless a fetch answered 401 invalidates it (expiresAt = time of
\* the 401), is invalid from expiresAt on, and changes in no other step.
C10_SessionLifetime ==
    [][/\ LoginSucceeds
          => /\ session'.Expires = now + 8 * 60 * 60 * 1000
             /\ session'.AuthToken # ""
       /\ (session' # session)
          => \/ LoginSucceeds
             \/ Answers401 /\ session' = [session EXCEPT !.Expires = now]
             \/ client = "nil"
       /\ (session.AuthToken # "" /\ now < session.Expires /\ now' < session.Expires
           /\ ~Answers401)
          => (session'.AuthToken # "" /\ now' < session'.Expires)
       /\ (now' >= session'.Expires) => ~isSessionValid'
      ]_vars

C10_Witness ==
    /\ session.AuthToken # "" /\ now = session.Expires - 1
    /\ session.Expires = 8 * 60 * 60 * 1000
    /\ isSessionValid

\* The archive fetch alone, on a client that NewUDMProClient has just
\* returned, against a gateway that answers 200 with the body it holds
NormalizerInit ==
    /\ client = "ok"
    /\ IsUniFiOS = FALSE
    /\ AuthToken = ""
    /\ CSRFToken = ""
    /\ session = [AuthToken |-> "", CSRFToken |-> "", Expires |-> 0]
    /\ cache = NewCache
    /\ now = 0
    /\ pc = "idle"
    /\ op = ""
    /\ depth = 0
    /\ range = [start |-> 0, end |-> 0]
    /\ reqs = <<>>
    /\ ret = NoRet
    /\ archive \in ArchiveBodies
    /\ loginAnswer = NoAnswer
    /\ NotFormatting /\ MonitorOff /\ SingleCaller /\ ScreenOff

NormalizerNext ==
    \/ GetSpeedtestResults
    \/ GetSpeedtestResultsInRange([err |-> FALSE, status |-> StatusOK, body |-> archive])
    \/ Resume

NormalizerSpec == NormalizerInit /\ [][NormalizerNext]_vars

----------------------------------------------------------------------------
(* Properties of CSRF extraction, the normaliser and controller detection *)

\* the payload of tok holds candidate field f with the value "abc"
PayloadHas(tok, f) == <<f, "string", "abc">> \in JWTData(tok)

\* the payload of tok holds none of the candidate fields
PayloadHasNoCandidate(tok) ==
    \A p \in JWTData(tok) : \A i \in DOMAIN possibleFields : p[1] # possibleFields[i]

\* C11: for an IntegratedOS client, after a successful login whose three-part
\* auth token carries "abc" under csrfToken, csrf_token or xsrfToken the CSRF
\* token of the client and of the Session is "abc"; after a successful login
\* whose token payload has none of the candidate fields both are empty,
\* whatever an earlier login had produced.
C11_CSRFFromPayload ==
    [][(LoginSucceeds /\ IsUniFiOS /\ JWTParts(AuthToken') = 3)
         => /\ (\E f \in {"csrfToken", "csrf_token", "xsrfToken"} : PayloadHas(AuthToken', f))
                => (CSRFToken' = "abc" /\ session'.CSRFToken = "abc")
            /\ PayloadHasNoCandidate(AuthToken')
                => (CSRFToken' = "" /\ session'.CSRFToken = "")
      ]_vars

\* the running call has returned after asking the gateway (no cache hit)
FetchedAndDone == pc = "done" /\ ret.op = "GetSpeedtestResults" /\ reqs # <<>>

\* the call has returned what the result cache held
ServedFromCache == pc = "done" /\ ret.op = "GetSpeedtestResults" /\ reqs = <<>>

\* an entry that holds a measurement (download > 0 or upload > 0)
IsMeasurement(e) == e.XputDownload > 0 \/ e.XputUpload > 0

\* the schema whose data array the body offers: meta-wrapped with rc "ok",
\* bare array, v2 with errorCode 0 and no meta.rc ("none": no data offered)
DataShape(body) ==
    IF body.json = "array" THEN "array"
    ELSE IF body.json = "object" /\ body.rc = "ok" THEN "meta"
    ELSE IF body.json = "object" /\ body.rc = "" /\ body.errorCode = 0 THEN "v2"
    ELSE "none"

HasMeasurement(data) == \E i \in DOMAIN data : IsMeasurement(data[i])

\* C12: in each of the three schemas, when the data array holds a
\* measurement the call returns an entry of the array that is a measurement
\* and whose timestamp is the greatest among the measurements, in whatever
\* order the entries come.
C12_MostRecentMeasurement ==
    (FetchedAndDone /\ DataShape(archive) # "none" /\ HasMeasurement(archive.data))
      => /\ ret.err = NoError
         /\ \E i \in DOMAIN archive.data :
              /\ IsMeasurement(archive.data[i])
              /\ ret.result = <<[DownloadMbps |-> archive.data[i].XputDownload,
                                 UploadMbps |-> archive.data[i].XputUpload,
                                 LatencyMs |-> archive.data[i].Latency,
                                 Timestamp |-> archive.data[i].Time]>>
              /\ \A j \in DOMAIN archive.data :
                   IsMeasurement(archive.data[j]) => archive.data[j].Time <= archive.data[i].Time

\* the example: [{t:100,d:50},{t:200,d:80},{t:150,d:0,u:0}], newest first in the middle
C12_Witness ==
    /\ FetchedAndDone /\ archive.json = "array"
    /\ Len(archive.data) = 3
    /\ <<archive.data[1].Time, archive.data[2].Time, archive.data[3].Time>> = <<100, 200, 150>>
    /\ ret.err = NoError /\ ret.result[1].Timestamp = 200 /\ ret.result[1].DownloadMbps = 80

\* C13: no result the fetch operation returns, fresh or from the cache, and
\* no result the cache stores has download = 0 and upload = 0, also when the
\* entry without a measurement is the newest of the array.
C13_NeverZeroSample ==
    /\ (pc = "done" /\ ret.result # Nil)
         => ~(ret.result[1].DownloadMbps = 0 /\ ret.result[1].UploadMbps = 0)
    /\ cache.Result # Nil
         => ~(cache.Result[1].DownloadMbps = 0 /\ cache.Result[1].UploadMbps = 0)

C13_Witness ==
    /\ ServedFromCache /\ ret.result # Nil
    /\ \E i \in DOMAIN archive.data :
         /\ ~IsMeasurement(archive.data[i])
         /\ \A j \in DOMAIN archive.data : archive.data[j].Time <= archive.data[i].Time
         /\ ret.result[1].Timestamp < archive.data[i].Time

NoValidSamples == "no valid speedtest results found (all results have zero values)"
UnrecognizedFormat == "failed to parse speedtest response in any known format"

\* C14: in each of the three schemas a non-empty data array without a
\* measurement makes the fetch fail with NoValidSamples.
C14_NoValidSamples ==
    (FetchedAndDone /\ DataShape(archive) # "none" /\ Len(archive.data) > 0
       /\ ~HasMeasurement(archive.data))
      => /\ ret.err.kind = NoValidSamples
         /\ ret.result = Nil
         /\ cache.Result = Nil

C14_Witness ==
    /\ FetchedAndDone /\ DataShape(archive) = "v2" /\ Len(archive.data) = 2
    /\ ~HasMeasurement(archive.data)
    /\ ret.err.kind = NoValidSamples

\* the three bodies that wrap one list of samples
Wrappings(d) ==
    { [json |-> "object", rc |-> "ok", msg |-> "", errorCode |-> 0, message |-> "", data |-> d],
      [json |-> "array",  rc |-> "",   msg |-> "", errorCode |-> 0, message |-> "", data |-> d],
      [json |-> "object", rc |-> "",   msg |-> "", errorCode |-> 0, message |-> "", data |-> d] }

\* C15: for every list of samples the meta-wrapped (rc "ok"), the bare-array
\* and the v2 (errorCode 0) wrapping give the same outcome: what the call
\* returned for the wrapping the gateway holds is what the normaliser yields
\* for the two other wrappings, the same result or the same error kind.
C15_SameOutcomeInAllShapes ==
    (FetchedAndDone /\ archive \in Wrappings(archive.data))
      => \A b \in Wrappings(archive.data) :
           /\ Normalize(b).result = ret.result
           /\ Normalize(b).err.kind = ret.err.kind

\* the body is a JSON object that carries meta.rc with another value than "ok"
MetaRefuses(body) == body.json = "object" /\ body.rc # "" /\ body.rc # "ok"

\* C16 as stated: a meta-wrapped body whose rc is present and not "ok" makes
\* the fetch fail with an API error that carries the embedded message,
\* whatever the data array holds; nothing is returned or cached.
C16_RejectedWithMessage ==
    (FetchedAndDone /\ MetaRefuses(archive))
      => /\ ret.result = Nil /\ cache.Result = Nil
         /\ ret.err.kind \in {"API error: %s", "API returned status: %s"}
         /\ archive.msg # "" => ret.err.text = archive.msg

\* C16 amended: a meta-wrapped body whose rc is present and not "ok" makes
\* the fetch fail with an API error whatever the data array and the v2
\* fields hold: for rc "error" the error carries the embedded message (a
\* default text when the message is empty), for any other rc it carries the
\* rc and not the message; nothing is returned or cached.
C16_MetaRejected ==
    (FetchedAndDone /\ MetaRefuses(archive))
      => /\ ret.result = Nil /\ cache.Result = Nil
         /\ archive.rc = "error"
              => ret.err = [kind |-> "API error: %s", status |-> 0, inner |-> "",
                            text |-> IF archive.msg # "" THEN archive.msg
                                     ELSE "Unknown error from controller"]
         /\ archive.rc # "error"
              => ret.err = [kind |-> "API returned status: %s", status |-> 0, inner |-> "",
                            text |-> archive.rc]

C16_Witness ==
    /\ FetchedAndDone /\ archive.rc = "busy" /\ archive.msg = "denied"
    /\ archive.errorCode = 7 /\ HasMeasurement(archive.data)
    /\ ret.err.kind = "API returned status: %s" /\ ret.err.text = "busy"

\* the body is a JSON object without meta.rc
V2Shape(body) == body.json = "object" /\ body.rc = ""

C18_ShapesInOrder ==
    FetchedAndDone
      => /\ (archive.json = "object" /\ archive.rc # "")
              => ret.err.kind # "v2 API error (code %d): %s"
         /\ (ret.err.kind = UnrecognizedFormat) <=> (archive.json \notin {"object", "array"})

\* the root probe got a response, whatever its status
ReachableProbes == {p \in ProbeResponses : p.err = ""}

\* C19: when the root probe gets a response, construction succeeds and
\* IsUniFiOS is true iff the status of that response is 200; every other
\* status gives a Legacy client.
C19_KindFromProbeStatus ==
    [][client = "nil" =>
       \A probe \in ReachableProbes :
         NewUDMProClient(probe)
         => /\ client' = "ok"
            /\ ret' = [op |-> "NewUDMProClient", err |-> NoError, result |-> Nil]
            /\ IsUniFiOS' <=> (probe.status = 200)
      ]_vars

C19_Witness ==
    /\ pc = "done" /\ ret.op = "NewUDMProClient" /\ ret.err = NoError
    /\ client = "ok" /\ ~IsUniFiOS /\ reqs[1].kind = "probe"

\* C20: once the client is constructed no step of Login, of the fetch and
\* its 401 re-authentication, or of the cache sends a root probe or changes
\* IsUniFiOS.
C20_KindDeterminedOnce ==
    [][client = "ok"
         => /\ IsUniFiOS' = IsUniFiOS
            /\ client' = "ok"
            /\ \A i \in DOMAIN reqs' : reqs'[i].kind # "probe"
      ]_vars

C20_Witness ==
    /\ IsUniFiOS /\ pc = "done" /\ ret.op = "GetSpeedtestResults" /\ ret.err = NoError
    /\ Len(reqs) = 3 /\ reqs[2].kind = "login" /\ reqs[3].url = apiURL

----------------------------------------------------------------------------
(* FormatSpeed *)

\* the client part of the state in the specifications that run no client
NoClient ==
    /\ client = "nil"
    /\ IsUniFiOS = FALSE
    /\ AuthToken = ""
    /\ CSRFToken = ""
    /\ session = [AuthToken |-> "", CSRFToken |-> "", Expires |-> 0]
    /\ cache = NewCache
    /\ now = 0
    /\ pc = "idle"
    /\ op = ""
    /\ depth = 0
    /\ range = [start |-> 0, end |-> 0]
    /\ reqs = <<>>
    /\ ret = NoRet
    /\ archive = NoBody
    /\ loginAnswer = NoAnswer

\* speeds are counted in hundredths of a Mbps
PerMbps == 100
GbpsThreshold == 1000
PerGbps == 1000

\* The speeds given to FormatSpeed: those around 1000 Mbps, and 0, 0.05,
\* 43.9, 43.95, 999, 1049.99, 1050, 1050.01, 1250, 2500 and 24999.99 Mbps.
Speeds ==
    ((GbpsThreshold * PerMbps - SpeedMargin) .. (GbpsThreshold * PerMbps + SpeedMargin)) \cup
    {0, 5, 4390, 4395, 99900, 104999, 105000, 105001, 125000, 250000, 2499999}

\* fmt.Sprintf("%.1f", x) for x = num / den: the digits before and after the
\* point.  x is rounded to the nearest tenth; where x lies halfway between
\* two tenths the digit depends on the binary value of the float64, which
\* may lie on either side, so both tenths are outcomes.
OneDecimal(num, den) ==
    LET q == (10 * num) \div den
        r == (10 * num) % den
        tenths == IF 2 * r < den THEN {q}
                  ELSE IF 2 * r > den THEN {q + 1}
                  ELSE {q, q + 1}
    IN {[whole |-> t \div 10, tenth |-> t % 10] : t \in tenths}

\* mutant: exactly 1000 Mbps is still given in Mb/s
usesGbpsAbove(m) == m > GbpsThreshold * PerMbps

\* mbps >= 1000
usesGbps(m) == m >= GbpsThreshold * PerMbps

\* the strings FormatSpeed(m / 100) can return, as [whole, tenth, unit]
FormatSpeedOutputs(m) ==
    IF usesGbps(m)
    THEN {[whole |-> d.whole, tenth |-> d.tenth, unit |-> "Gb/s"] :
            d \in OneDecimal(m, PerMbps * PerGbps)}
    ELSE {[whole |-> d.whole, tenth |-> d.tenth, unit |-> "Mb/s"] :
            d \in OneDecimal(m, PerMbps)}

\* a caller formats the speed mbps
FormatSpeed ==
    /\ formatted = <<>>
    /\ \E f \in FormatSpeedOutputs(mbps) : formatted' = <<f>>
    /\ UNCHANGED mbps
    /\ UNCHANGED <<clientVars, healthVars, lockVars, screenVars>>

FormatInit ==
    /\ NoClient
    /\ mbps \in Speeds
    /\ formatted = <<>>
    /\ MonitorOff /\ SingleCaller /\ ScreenOff

FormatNext == FormatSpeed

FormatSpec == FormatInit /\ [][FormatNext]_vars

----------------------------------------------------------------------------
(* The rack LEDs and the health monitor *)

ThresholdWarning == 80
ThresholdCritical == 95

\* the CPU and RAM usages the monitor samples, in percent
Usages ==
    {0, 100} \cup
    ((ThresholdWarning - UsageMargin) .. (ThresholdWarning + UsageMargin)) \cup
    ((ThresholdCritical - UsageMargin) .. (ThresholdCritical + UsageMargin))

RackLEDs == {"rack:blue", "rack:white", "ulogo_ctrl"}

\* max_brightness of an LED as the kernel gives it; <<>> when it cannot be read
MaxBrightnessValues == {<<>>, <<1>>, <<255>>}
DefaultBrightness == 255
BlinkBrightness == 255
BlinkDelay == 500

\* LED.write: nothing is written for an LED that does not exist
ledWrite(led, where, what) ==
    IF ~led.exists THEN led ELSE [led EXCEPT ![where] = what]

\* LED.Off
ledOff(led) ==
    IF ~led.exists THEN led
    ELSE ledWrite(ledWrite(led, "trigger", "none"), "brightness", 0)

\* LED.On
ledOn(led) ==
    IF ~led.exists THEN led
    ELSE LET cleared == ledWrite(led, "trigger", "none") IN
         IF led.max_brightness = <<>>
         THEN ledWrite(cleared, "brightness", DefaultBrightness)
         ELSE ledWrite(cleared, "brightness", led.max_brightness[1])

\* LED.Brightness
ledBrightness(led, i) ==
    IF ~led.exists THEN led
    ELSE ledWrite(ledWrite(led, "trigger", "none"), "brightness", i)

\* LED.Blink
ledBlink(led, i, onTime, offTime) ==
    IF ~led.exists THEN led
    ELSE LET a == ledWrite(led, "trigger", "none")
             b == ledBrightness(a, i)
             c == ledWrite(b, "trigger", "timer")
             d == ledWrite(c, "delay_on", onTime)
         IN ledWrite(d, "delay_off", offTime)

evaluateHealth(cpu, ram) ==
    LET maxUsage == IF ram > cpu THEN ram ELSE cpu IN
    IF maxUsage >= ThresholdCritical THEN "HealthCritical"
    ELSE IF maxUsage >= ThresholdWarning THEN "HealthWarning"
    ELSE "HealthOK"

\* the LED files after updateRackLEDs(health, udmError)
updateRackLEDs(health, udmError) ==
    LET blue == ledOff(leds["rack:blue"])
        white == ledOff(leds["rack:white"])
    IN
    [leds EXCEPT
       !["rack:white"] = IF udmError \/ health = "HealthCritical"
                         THEN ledBlink(white, BlinkBrightness, BlinkDelay, BlinkDelay)
                         ELSE IF health = "HealthWarning" THEN ledOn(white)
                         ELSE white,
       !["rack:blue"] = IF udmError \/ health \in {"HealthCritical", "HealthWarning"}
                        THEN blue ELSE ledOn(blue),
       !["ulogo_ctrl"] = ledOn(leds["ulogo_ctrl"])]

\* another goroutine reports or clears a UDM error
SetUDMError(hasError) ==
    /\ monitorPc # "off"
    /\ hasUDMError' = hasError
    /\ UNCHANGED <<cpuPercent, memPercent, currentHealth, leds, monitorPc>>
    /\ UNCHANGED <<clientVars, formatVars, lockVars, screenVars>>

\* an iteration of the monitor up to its test: the usages are sampled and
\* compared with the health of the last update
SampleHealth(cpu, ram) ==
    /\ monitorPc = "sample"
    /\ cpuPercent' = cpu
    /\ memPercent' = ram
    /\ monitorPc' = IF evaluateHealth(cpu, ram) # currentHealth \/ hasUDMError
                    THEN "update" ELSE "sample"
    /\ UNCHANGED <<currentHealth, hasUDMError, leds>>
    /\ UNCHANGED <<clientVars, formatVars, lockVars, screenVars>>

\* the body of the test: the new health is stored and the LEDs are set for
\* it and for the UDM error flag as it is now
UpdateHealth ==
    /\ monitorPc = "update"
    /\ currentHealth' = evaluateHealth(cpuPercent, memPercent)
    /\ leds' = updateRackLEDs(evaluateHealth(cpuPercent, memPercent), hasUDMError)
    /\ monitorPc' = "sample"
    /\ UNCHANGED <<cpuPercent, memPercent, hasUDMError>>
    /\ UNCHANGED <<clientVars, formatVars, lockVars, screenVars>>

\* startHealthMonitor has started the goroutine; the LED files are as the
\* kernel leaves them (no trigger, dark), each LED present or not
HealthInit ==
    /\ NoClient /\ NotFormatting /\ SingleCaller /\ ScreenOff
    /\ cpuPercent = 0 /\ memPercent = 0
    /\ currentHealth = "HealthOK"
    /\ hasUDMError = FALSE
    /\ monitorPc = "sample"
    /\ \E present \in [RackLEDs -> BOOLEAN], m \in MaxBrightnessValues :
         leds = [n \in RackLEDs |->
                   [exists |-> present[n], max_brightness |-> m, trigger |-> "none",
                    brightness |-> 0, delay_on |-> 0, delay_off |-> 0]]

HealthNext ==
    \/ \E cpu, ram \in Usages : SampleHealth(cpu, ram)
    \/ UpdateHealth
    \/ \E hasError \in BOOLEAN : SetUDMError(hasError)

HealthSpec == HealthInit /\ [][HealthNext]_vars

\* an iteration of the monitor's for loop, which never ends and sleeps five
\* seconds between two iterations
MonitorIteration ==
    \/ \E cpu, ram \in Usages : SampleHealth(cpu, ram)
    \/ UpdateHealth

\* the monitor goroutine keeps running; SetUDMError is called or not
HealthFairSpec == HealthInit /\ [][HealthNext]_vars /\ WF_vars(MonitorIteration)

----------------------------------------------------------------------------
(* Concurrent callers of one client *)

\* Two goroutines call Login() and GetSpeedtestResults() on the same client.
\* A step is the code between two points at which the other caller can run:
\* the acquisition of cacheMutex, the code run while it is held up to its
\* release, a request together with the code that handles its answer.
\* callers[i].pc names the function caller i is in.
Callers == {1, 2}

IdleCaller == [pc |-> "idle", op |-> "", depth |-> 0, result |-> Nil]

\* the answers of the gateway to the concurrent callers
ConcurrentLogins ==
    {NoAnswer,
     [err |-> FALSE, status |-> StatusOK, cookies |-> <<[Name |-> "TOKEN", Value |-> "jwtB"]>>],
     [err |-> FALSE, status |-> StatusOK, cookies |-> <<[Name |-> "unifises", Value |-> "opaque"]>>]}
ConcurrentFetches ==
    {r \in FetchResponses :
        \/ r.status \in {StatusUnauthorized, 500}
        \/ r.status = StatusOK /\ r.body.json = "array" /\ Len(r.body.data) = 1
             /\ r.body.data[1].XputDownload > 0}

\* how caller i holds cacheMutex
heldBy(i) ==
    IF cacheMutex.w = i THEN "exclusive"
    ELSE IF i \in cacheMutex.r THEN "shared"
    ELSE "none"

\* cacheMutex after caller i has released it
released(i) == [w |-> IF cacheMutex.w = i THEN 0 ELSE cacheMutex.w, r |-> cacheMutex.r \ {i}]

\* the accesses of caller i to fields of the client, with the lock it holds
Reads(i, fields) == {[who |-> i, kind |-> "read", field |-> f, held |-> heldBy(i)] : f \in fields}
Writes(i, fields) == {[who |-> i, kind |-> "write", field |-> f, held |-> heldBy(i)] : f \in fields}

\* the functions that take the shared and the exclusive lock
TakesRLock == {"getCachedSpeedtest", "isSessionValid", "useCachedSession"}
TakesLock == {"cacheSession", "setCachedSpeedtest"}

\* the caller after Login() has returned to it: Login() was the call, or the
\* 401 branch goes on with the recursive fetch or returns the error
AfterLogin(c, ok) ==
    IF c.op = "Login" \/ ~ok THEN [c EXCEPT !.pc = "done"]
    ELSE [c EXCEPT !.pc = "fetch", !.depth = c.depth + 1]

\* what no concurrent caller changes
ConcurrentFrame ==
    /\ UNCHANGED <<client, IsUniFiOS, now, pc, op, depth, range, reqs, ret, archive, loginAnswer>>
    /\ UNCHANGED <<formatVars, healthVars, screenVars>>

\* caller i calls Login()
CallLogin(i) ==
    /\ callers[i].pc = "idle"
    /\ callers' = [callers EXCEPT ![i] = [IdleCaller EXCEPT !.pc = "isSessionValid", !.op = "Login"]]
    /\ accesses' = {}
    /\ UNCHANGED <<AuthToken, CSRFToken, session, cache, cacheMutex>>
    /\ ConcurrentFrame

\* caller i calls GetSpeedtestResults()
CallGetSpeedtestResults(i) ==
    /\ callers[i].pc = "idle"
    /\ callers' = [callers EXCEPT ![i] = [IdleCaller EXCEPT !.pc = "getCachedSpeedtest",
                                                            !.op = "GetSpeedtestResults"]]
    /\ accesses' = {}
    /\ UNCHANGED <<AuthToken, CSRFToken, session, cache, cacheMutex>>
    /\ ConcurrentFrame

\* c.cacheMutex.RLock() of caller i
RLock(i) ==
    /\ callers[i].pc \in TakesRLock
    /\ heldBy(i) = "none"
    /\ cacheMutex.w = 0
    /\ cacheMutex' = [cacheMutex EXCEPT !.r = @ \cup {i}]
    /\ accesses' = {}
    /\ UNCHANGED <<AuthToken, CSRFToken, session, cache, callers>>
    /\ ConcurrentFrame

\* c.cacheMutex.Lock() of caller i
Lock(i) ==
    /\ callers[i].pc \in TakesLock
    /\ heldBy(i) = "none"
    /\ cacheMutex.w = 0 /\ cacheMutex.r = {}
    /\ cacheMutex' = [cacheMutex EXCEPT !.w = i]
    /\ accesses' = {}
    /\ UNCHANGED <<AuthToken, CSRFToken, session, cache, callers>>
    /\ ConcurrentFrame

\* getCachedSpeedtest() of caller i, from the lock taken to its release
CachedSpeedtestOf(i) ==
    /\ callers[i].pc = "getCachedSpeedtest"
    /\ heldBy(i) # "none"
    /\ accesses' = Reads(i, {"cache"})
    /\ cacheMutex' = released(i)
    /\ callers' = [callers EXCEPT ![i] =
                     IF getCachedSpeedtest # Nil
                     THEN [@ EXCEPT !.pc = "done", !.result = getCachedSpeedtest]
                     ELSE [@ EXCEPT !.pc = "fetch", !.depth = 1]]
    /\ UNCHANGED <<AuthToken, CSRFToken, session, cache>>
    /\ ConcurrentFrame

\* isSessionValid() of caller i, called by Login()
SessionValidOf(i) ==
    /\ callers[i].pc = "isSessionValid"
    /\ heldBy(i) # "none"
    /\ accesses' = Reads(i, {"session.AuthToken", "session.Expires"})
    /\ cacheMutex' = released(i)
    /\ callers' = [callers EXCEPT ![i].pc = IF isSessionValid THEN "useCachedSession" ELSE "login"]
    /\ UNCHANGED <<AuthToken, CSRFToken, session, cache>>
    /\ ConcurrentFrame

\* useCachedSession() of caller i; Login() returns nil after it
UseCachedSessionOf(i) ==
    /\ callers[i].pc = "useCachedSession"
    /\ heldBy(i) # "none"
    /\ AuthToken' = session.AuthToken
    /\ CSRFToken' = session.CSRFToken
    /\ accesses' = Reads(i, {"session.AuthToken", "session.CSRFToken"})
                     \cup Writes(i, {"AuthToken", "CSRFToken"})
    /\ cacheMutex' = released(i)
    /\ callers' = [callers EXCEPT ![i] = AfterLogin(@, TRUE)]
    /\ UNCHANGED <<session, cache>>
    /\ ConcurrentFrame

\* the login request of caller i and the code of Login() that handles the
\* answer, up to the call of cacheSession()
LoginOf(i, resp) ==
    /\ callers[i].pc = "login"
    /\ IF resp.err \/ loginStatusError(resp.status) # NoError
       THEN /\ callers' = [callers EXCEPT ![i] = AfterLogin(@, FALSE)]
            /\ accesses' = {}
            /\ UNCHANGED <<AuthToken, CSRFToken>>
       ELSE LET ck == CookieLoop(resp.cookies, 1, AuthToken, CSRFToken)
                own == {resp.cookies[k].Value : k \in {n \in DOMAIN resp.cookies :
                                                        resp.cookies[n].Name = authCookieName}}
                found == {v \in own : extractCSRFToken(IsUniFiOS, v, "").CSRFToken # ""}
            IN
            /\ AuthToken' = ck.AuthToken
            /\ CSRFToken' = ck.CSRFToken
            /\ accesses' = Reads(i, {"AuthToken"}) \cup
                           (IF own # {} THEN Writes(i, {"AuthToken"}) ELSE {}) \cup
                           (IF found # {} THEN Writes(i, {"CSRFToken"}) ELSE {})
            /\ callers' = [callers EXCEPT ![i] =
                             IF ck.err # NoError \/ ck.AuthToken = ""
                             THEN AfterLogin(@, FALSE)
                             ELSE [@ EXCEPT !.pc = "cacheSession"]]
    /\ UNCHANGED <<session, cache, cacheMutex>>
    /\ ConcurrentFrame

\* cacheSession() of caller i; Login() returns nil after it
CacheSessionOf(i) ==
    /\ callers[i].pc = "cacheSession"
    /\ heldBy(i) = "exclusive"
    /\ session' = cacheSession(AuthToken, CSRFToken)
    /\ accesses' = Reads(i, {"AuthToken", "CSRFToken"})
                     \cup Writes(i, {"session.AuthToken", "session.CSRFToken", "session.Expires"})
    /\ cacheMutex' = released(i)
    /\ callers' = [callers EXCEPT ![i] = AfterLogin(@, TRUE)]
    /\ UNCHANGED <<AuthToken, CSRFToken, cache>>
    /\ ConcurrentFrame

\* a frame of GetSpeedtestResultsInRange() of caller i: the request is
\* built and sent, and its answer handled up to the next call
FetchOf(i, resp) ==
    /\ callers[i].pc = "fetch"
    /\ IF ~resp.err /\ retriesAfter(resp.status)
       THEN /\ callers[i].depth < MaxDepth
            /\ AuthToken' = ""
            /\ CSRFToken' = ""
            /\ session' = invalidatedSession
            /\ accesses' = Reads(i, {"CSRFToken"})
                             \cup Writes(i, {"AuthToken", "CSRFToken", "session.Expires"})
            /\ callers' = [callers EXCEPT ![i].pc = "isSessionValid"]
       ELSE /\ accesses' = Reads(i, {"CSRFToken"})
            /\ callers' = [callers EXCEPT ![i] =
                             IF ~resp.err /\ resp.status = StatusOK
                                /\ Normalize(resp.body).err = NoError
                             THEN [@ EXCEPT !.pc = "setCachedSpeedtest",
                                            !.result = Normalize(resp.body).result]
                             ELSE [@ EXCEPT !.pc = "done"]]
            /\ UNCHANGED <<AuthToken, CSRFToken, session>>
    /\ UNCHANGED <<cache, cacheMutex>>
    /\ ConcurrentFrame

\* setCachedSpeedtest(result) of caller i; GetSpeedtestResults() returns after it
SetCachedSpeedtestOf(i) ==
    /\ callers[i].pc = "setCachedSpeedtest"
    /\ heldBy(i) = "exclusive"
    /\ cache' = setCachedSpeedtest(callers[i].result)
    /\ accesses' = Writes(i, {"cache"})
    /\ cacheMutex' = released(i)
    /\ callers' = [callers EXCEPT ![i].pc = "done"]
    /\ UNCHANGED <<AuthToken, CSRFToken, session>>
    /\ ConcurrentFrame

\* caller i takes what its call returned
ReturnTo(i) ==
    /\ callers[i].pc = "done"
    /\ callers' = [callers EXCEPT ![i] = IdleCaller]
    /\ accesses' = {}
    /\ UNCHANGED <<AuthToken, CSRFToken, session, cache, cacheMutex>>
    /\ ConcurrentFrame

\* a client that NewUDMProClient has just returned, shared by the callers
ConcurrentInit ==
    /\ client = "ok"
    /\ IsUniFiOS \in BOOLEAN
    /\ AuthToken = ""
    /\ CSRFToken = ""
    /\ session = [AuthToken |-> "", CSRFToken |-> "", Expires |-> 0]
    /\ cache = NewCache
    /\ now = 0
    /\ pc = "idle"
    /\ op = ""
    /\ depth = 0
    /\ range = [start |-> 0, end |-> 0]
    /\ reqs = <<>>
    /\ ret = NoRet
    /\ archive = NoBody
    /\ loginAnswer = NoAnswer
    /\ NotFormatting /\ MonitorOff /\ ScreenOff
    /\ callers = [i \in Callers |-> IdleCaller]
    /\ cacheMutex = [w |-> 0, r |-> {}]
    /\ accesses = {}

ConcurrentNext ==
    \E i \in Callers :
        \/ CallLogin(i)
        \/ CallGetSpeedtestResults(i)
        \/ RLock(i)
        \/ Lock(i)
        \/ CachedSpeedtestOf(i)
        \/ SessionValidOf(i)
        \/ UseCachedSessionOf(i)
        \/ \E resp \in ConcurrentLogins : LoginOf(i, resp)
        \/ CacheSessionOf(i)
        \/ \E resp \in ConcurrentFetches : FetchOf(i, resp)
        \/ SetCachedSpeedtestOf(i)
        \/ ReturnTo(i)

ConcurrentSpec == ConcurrentInit /\ [][ConcurrentNext]_vars

----------------------------------------------------------------------------
(* Properties of the requests, of the failure paths and of the cookies *)

\* C21: every archive-fetch request of a call, first attempt and retry, is a
\* POST to /api/s/{site}/stat/report/archive.speedtest, prefixed with
\* /proxy/network iff the client is UniFi OS, and every login request is a
\* POST to /api/auth/login iff UniFi OS and to /api/login iff not.
C21_RequestPaths ==
    \A i \in DOMAIN reqs :
      /\ reqs[i].kind = "fetch"
           => /\ reqs[i].method = "POST"
              /\ IsUniFiOS => reqs[i].url = "/proxy/network/api/s/{site}/stat/report/archive.speedtest"
              /\ ~IsUniFiOS => reqs[i].url = "/api/s/{site}/stat/report/archive.speedtest"
      /\ reqs[i].kind = "login"
           => /\ reqs[i].method = "POST"
              /\ IsUniFiOS => reqs[i].url = "/api/auth/login"
              /\ ~IsUniFiOS => reqs[i].url = "/api/login"

C21_Witness ==
    /\ IsUniFiOS /\ pc = "done" /\ Len(reqs) = 3
    /\ reqs[1].url = "/proxy/network/api/s/{site}/stat/report/archive.speedtest"
    /\ reqs[2].url = "/api/auth/login"
    /\ reqs[3].url = reqs[1].url /\ reqs[3].method = "POST"

\* this step is one frame of GetSpeedtestResultsInRange, from the building of
\* the request to the handling of the answer
RunsFetchFrame == pc = "fetch" /\ pc' # "fetch"

\* C22: whatever the CSRF token, a frame of the fetch sends its request: for
\* a UniFi OS client with header x-csrf-token equal to the token when the
\* token is not empty (of any length) and without the header when it is
\* empty; for a Legacy client always without the header.
C22_CSRFHeader ==
    [][RunsFetchFrame
         => /\ SendsFetch
            /\ reqs'[Len(reqs')].csrf = (IF IsUniFiOS THEN CSRFToken ELSE "")
      ]_vars

\* the answers to a fetch that are failures other than a 401
TerminalFailures ==
    {resp \in FetchResponses :
        \/ resp.err
        \/ resp.status \notin {200, 401}
        \/ resp.status = 200 /\ Normalize(resp.body).err # NoError}

\* the error a failure other than a 401 is returned as
FailureError(resp) ==
    IF resp.err THEN Err("speedtest request failed")
    ELSE IF resp.status # StatusOK
    THEN ErrStatus("speedtest request failed with status: %d", resp.status)
    ELSE Normalize(resp.body).err

FailureErrors == {FailureError(resp) : resp \in TerminalFailures}

\* one failing answer for each error a failure is returned as
FailureClasses ==
    {CHOOSE resp \in TerminalFailures : FailureError(resp) = e : e \in FailureErrors}

\* C23: a fetch failure other than a 401 (transport error, status other than
\* 200 and 401, unrecognized format, API error, no valid samples) ends the
\* call.  The step that returns such an error logs that fetch as the last
\* request of the call (no login, no further fetch) and leaves the Session
\* and the result cache as they were; no failing answer leads into the
\* re-authentication branch, and none of the failure classes yields a result.
C23_OtherFailuresTerminal ==
    [][(pc = "fetch" /\ SendsFetch) =>
         IF pc' = "done" /\ ret'.err # NoError
         THEN /\ ret'.err \in FailureErrors
              /\ ret'.result = Nil
              /\ reqs' = Append(reqs, FetchRequestRec)
              /\ session' = session
              /\ cache' = cache
         ELSE IF pc' = "relogin"
         THEN \A resp \in TerminalFailures : ~GetSpeedtestResultsInRange(resp)
         ELSE \A resp \in FailureClasses : ~GetSpeedtestResultsInRange(resp)
      ]_vars

C23_Witness ==
    /\ pc = "done" /\ ret.op = "GetSpeedtestResults"
    /\ ret.err.kind = "speedtest request failed with status: %d" /\ ret.err.status = 500
    /\ Len(reqs) = 1
    /\ session.AuthToken # "" /\ now < session.Expires

OwnCookies == {i \in DOMAIN loginAnswer.cookies : loginAnswer.cookies[i].Name = authCookieName}

NoAuthToken == Err("no authentication token found in response")

\* this step is a Login() that asks the gateway
NetworkLogin == pc = "idle" /\ pc' = "done" /\ ret'.op = "Login" /\ ~isSessionValid

\* C28: Login takes the auth token only from the cookie named TOKEN on an
\* IntegratedOS client and only from the cookie named unifises on a Legacy
\* one.  A network login answered 200 with cookies of the other family only
\* leaves the token fields of the client as they were, and on a client that
\* holds no token it fails with "no authentication token found" and caches
\* no session; with cookies of its own family the token is the value of one
\* of them.  A Legacy client never has a CSRF token, whatever cookie it is
\* given.
C28_TokenFromOwnCookie ==
    [][NetworkLogin =>
         /\ OwnCookies = {} =>
              /\ AuthToken' = AuthToken
              /\ CSRFToken' = CSRFToken
              /\ AuthToken = "" => (ret'.err = NoAuthToken /\ session' = session)
         /\ OwnCookies # {} =>
              AuthToken' \in {loginAnswer.cookies[i].Value : i \in OwnCookies}
         /\ ~IsUniFiOS => (CSRFToken' = "" /\ session'.CSRFToken = "")
      ]_vars

\* a Legacy client was answered 200 with a TOKEN cookie whose payload holds a
\* CSRF field: the login yielded no token and no CSRF token
C28_Witness ==
    /\ pc = "done" /\ ret.op = "Login" /\ ret.err = NoAuthToken
    /\ ~IsUniFiOS
    /\ loginAnswer.cookies = <<[Name |-> "TOKEN", Value |-> "jwtA"]>>
    /\ reqs = <<LoginRequestRec>>
    /\ AuthToken = "" /\ CSRFToken = "" /\ session.AuthToken = ""

\* the candidate at position i of possibleFields holds a non-empty string in the payload of tok
HoldsString(tok, i) ==
    \E p \in JWTData(tok) : p[1] = possibleFields[i] /\ p[2] = "string" /\ p[3] # ""

\* the value of the field named f in the payload of tok
ValueOf(tok, f) == (CHOOSE p \in JWTData(tok) : p[1] = f)[3]

\* the answer carries one cookie, a TOKEN whose payload is a JSON object
OneObjectToken ==
    /\ Len(loginAnswer.cookies) = 1
    /\ loginAnswer.cookies[1].Name = "TOKEN"
    /\ loginAnswer.cookies[1].Value \in WellFormedTokens

\* C29: extractCSRFToken takes the value of the first candidate, in the order
\* csrfToken, csrf_token, xsrfToken, token, that holds a non-empty string:
\* every earlier candidate is absent, empty or not a string, later candidates
\* are not looked at; when no candidate holds one the CSRF token of the
\* client stays as it was.
C29_FirstNonEmptyString ==
    [][(NetworkLogin /\ IsUniFiOS /\ OneObjectToken) =>
         LET tok == loginAnswer.cookies[1].Value
             holding == {i \in DOMAIN possibleFields : HoldsString(tok, i)}
         IN /\ ret'.err = NoError
            /\ holding = {} => CSRFToken' = CSRFToken
            /\ holding # {} =>
                 \E i \in holding :
                   /\ \A j \in holding : i <= j
                   /\ CSRFToken' = ValueOf(tok, possibleFields[i])
      ]_vars

\* the login took "xyz" from xsrfToken: csrfToken was a number, csrf_token
\* null, and the later candidate token held "abc"
C29_Witness ==
    /\ pc = "done" /\ ret.op = "Login" /\ ret.err = NoError
    /\ loginAnswer.cookies = <<[Name |-> "TOKEN", Value |-> "jwtT"]>>
    /\ AuthToken = "jwtT" /\ CSRFToken = "xyz" /\ session.CSRFToken = "xyz"

\* the answer carries one cookie, a TOKEN that is not a three-part value or
\* whose middle part does not decode to a JSON object
OneMalformedToken ==
    /\ Len(loginAnswer.cookies) = 1
    /\ loginAnswer.cookies[1].Name = "TOKEN"
    /\ loginAnswer.cookies[1].Value \in MalformedTokens

\* C30: on an IntegratedOS client a login answered 200 with a TOKEN cookie
\* that is not a three-part dot-delimited value, or whose middle part does
\* not base64url-decode to a JSON object, fails; no session is cached by it,
\* so that the session is not valid afterwards and a later Login asks the
\* gateway again.
C30_MalformedTokenFails ==
    [][(NetworkLogin /\ IsUniFiOS /\ OneMalformedToken) =>
         /\ ret'.err # NoError
         /\ session' = session
         /\ ~isSessionValid'
      ]_vars

\* the absolute value of an integer
Abs(x) == IF x < 0 THEN -x ELSE x

\* the tenths a formatted speed counts, e.g. 25 for "2.5 Gb/s"
Tenths(f) == 10 * f.whole + f.tenth

\* C25: FormatSpeed renders a speed below 1000 Mbps with the unit "Mb/s" and
\* a speed of 1000 Mbps or more with the unit "Gb/s"; the number printed has
\* one decimal and is the speed, respectively the speed divided by 1000,
\* rounded to it (at most half a tenth away).  999 gives "999.0 Mb/s", 1000
\* gives "1.0 Gb/s" and 2500 gives "2.5 Gb/s".
C25_FormatSpeed ==
    formatted # <<>> =>
        LET f == formatted[1] IN
        /\ f.tenth \in 0..9
        /\ f.unit = "Mb/s" <=> mbps < 1000 * PerMbps
        /\ f.unit = "Gb/s" <=> mbps >= 1000 * PerMbps
        /\ f.unit = "Mb/s" => 2 * Abs(Tenths(f) * PerMbps - 10 * mbps) <= PerMbps
        /\ f.unit = "Gb/s" => 2 * Abs(Tenths(f) * PerMbps * 1000 - 10 * mbps) <= PerMbps * 1000
        /\ mbps = 999 * PerMbps => f = [whole |-> 999, tenth |-> 0, unit |-> "Mb/s"]
        /\ mbps = 1000 * PerMbps => f = [whole |-> 1, tenth |-> 0, unit |-> "Gb/s"]
        /\ mbps = 2500 * PerMbps => f = [whole |-> 2, tenth |-> 5, unit |-> "Gb/s"]

\* 1000 Mbps has been formatted as "1.0 Gb/s"
C25_Witness ==
    mbps = 1000 * PerMbps /\ formatted = <<[whole |-> 1, tenth |-> 0, unit |-> "Gb/s"]>>

\* what an LED shows
Dark(led) == led.trigger = "none" /\ led.brightness = 0
Solid(led) == led.trigger = "none" /\ led.brightness > 0
Blinking(led) == led.trigger = "timer" /\ led.brightness > 0 /\ led.delay_on > 0 /\ led.delay_off > 0

AllLEDsExist == \A n \in RackLEDs : leds[n].exists

\* this step is a run of updateRackLEDs
RunsUpdateRackLEDs == monitorPc = "update" /\ monitorPc' = "sample"

\* C26: whenever updateRackLEDs runs (on a unit that has the rack LEDs) they
\* end in the state of the README's table for the usages sampled and the UDM
\* error flag: solid blue iff no UDM error and CPU and RAM both below 80%,
\* solid white iff no UDM error and the larger of the two from 80% to 95%,
\* blinking white iff CPU or RAM above 95% or a UDM error; blue and white
\* are never lit together and ulogo_ctrl is on.
C26_LEDTable ==
    [][(RunsUpdateRackLEDs /\ AllLEDsExist) =>
         LET larger == IF memPercent > cpuPercent THEN memPercent ELSE cpuPercent
             blue == leds'["rack:blue"]
             white == leds'["rack:white"]
         IN /\ (Solid(blue) /\ Dark(white)) <=> (~hasUDMError /\ larger < 80)
            /\ (Solid(white) /\ Dark(blue)) <=> (~hasUDMError /\ larger >= 80 /\ larger <= 95)
            /\ (Blinking(white) /\ Dark(blue)) <=> (hasUDMError \/ larger > 95)
            /\ ~(~Dark(blue) /\ ~Dark(white))
            /\ Solid(leds'["ulogo_ctrl"])
      ]_vars

\* the fields of the Session and of the result cache
SessionAndCache == {"session.AuthToken", "session.CSRFToken", "session.Expires", "cache"}

\* the token fields of the client, which useCachedSession restores from the Session
TokenFields == {"AuthToken", "CSRFToken"}

\* C24: with several callers on one client, every write to the Session and
\* to the result cache is made by a caller that holds cacheMutex exclusively
\* and every read of them by a caller that holds it at least shared; the
\* token fields, which the 401 branch clears and useCachedSession restores,
\* are never written without the exclusive lock.
C24_LockDiscipline ==
    \A a \in accesses :
        /\ (a.field \in SessionAndCache /\ a.kind = "write") => a.held = "exclusive"
        /\ (a.field \in SessionAndCache /\ a.kind = "read") => a.held \in {"shared", "exclusive"}
        /\ (a.field \in TokenFields /\ a.kind = "write") => a.held = "exclusive"

----------------------------------------------------------------------------
(* The speedtest screen: GetUDMProSpeedtest and the polling loop of buildSpeedTest *)

MaxPolls == 3

\* time.Sleep(5 * time.Minute) and the minimum interval between two fetches, in ms
PollInterval == 5 * 60 * 1000

\* The error GetUDMProSpeedtest returns: chain holds the format strings of
\* its message from the outermost wrapper inwards, status the number and
\* text the string formatted into the innermost one (0 and "" when none).
NoPollError == [chain |-> <<>>, status |-> 0, text |-> ""]

\* the format strings of the message of an error of the client
Chain(e) == <<e.kind>> \o (IF e.inner # "" THEN <<e.inner>> ELSE <<>>)

\* fmt.Errorf(k + ": %v", e) for an error e of the client; text is the message
\* of the transport error where e wraps one
WrapChain(k, e, text) ==
    [chain |-> <<k>> \o Chain(e), status |-> e.status, text |-> IF text # "" THEN text ELSE e.text]

\* the messages of the transport errors of the login and archive requests
TransportTexts == {"dial tcp: i/o timeout", "connect: connection refused", "EOF"}

\* the answers of the gateway to the screen's client
ScreenLogins ==
    {NoAnswer} \cup
    [err : {FALSE}, status : {StatusTooManyRequests, 403, 500}, cookies : {RefusedCookies}] \cup
    {[err |-> FALSE, status |-> StatusOK, cookies |-> <<[Name |-> n, Value |-> v]>>] :
        n \in {"TOKEN", "unifises"}, v \in {"jwtA", "jwtB"}}
ScreenFetches ==
    {[err |-> TRUE, status |-> 0, body |-> NoBody]} \cup
    [err : {FALSE}, status : {StatusUnauthorized, 403, StatusTooManyRequests}, body : {NoBody}] \cup
    {r \in FetchResponses : r.status = StatusOK /\ r.body.json = "array"}

\* the words the screen looks for in the message of an error
Markers == {"timeout", "cannot reach", "connection refused", "login failed", "403", "429"}

\* the markers that occur in a format string or in a formatted string
Mentions(str) ==
    CASE str = "network timeout - cannot reach UDM Pro" -> {"timeout", "cannot reach"}
      [] str = "connection refused - UDM Pro is not accessible" -> {"connection refused"}
      [] str = "login failed" -> {"login failed"}
      [] str = "login failed with status: %d (rate limited)" -> {"login failed"}
      [] str = "login failed with status: %d" -> {"login failed"}
      [] str = "dial tcp: i/o timeout" -> {"timeout"}
      [] str = "connect: connection refused" -> {"connection refused"}
      [] OTHER -> {}

RECURSIVE DigitsContain(_, _)
\* the decimal digits of n contain those of the three-digit number k
DigitsContain(n, k) ==
    \/ n % 1000 = k
    \/ n >= 1000 /\ DigitsContain(n \div 10, k)

\* strings.Contains(err.Error(), marker)
Contains(e, marker) ==
    \/ \E i \in DOMAIN e.chain : marker \in Mentions(e.chain[i])
    \/ marker \in Mentions(e.text)
    \/ e.status # 0 /\ marker = "403" /\ DigitsContain(e.status, 403)
    \/ e.status # 0 /\ marker = "429" /\ DigitsContain(e.status, 429)

\* the three lines the screen shows for an error of GetUDMProSpeedtest
ErrorMessages(e) ==
    IF Contains(e, "timeout") \/ Contains(e, "cannot reach")
    THEN <<"network error", "check UDM IP", "verify connectivity">>
    ELSE IF Contains(e, "connection refused")
    THEN <<"UDM offline", "check device", "verify running">>
    ELSE IF Contains(e, "login failed") \/ Contains(e, "403")
    THEN <<"auth error", "403 forbidden", "check credentials">>
    ELSE IF Contains(e, "429")
    THEN <<"rate limited", "retry tomorrow", "API limit hit">>
    ELSE <<"connection error", "check logs", "see UDM_SETUP">>

\* GetRelativeTime(timestamp)
GetRelativeTime(timestamp) ==
    LET diff == now - timestamp IN
    IF diff < 60000 THEN "just now"
    ELSE IF diff < 3600000 THEN ToString(diff \div 60000) \o " minutes ago"
    ELSE IF diff < 86400000 THEN ToString(diff \div 3600000) \o " hours ago"
    ELSE ToString(diff \div 86400000) \o " days ago"

\* the strings network.FormatSpeed(speed) can return for a speed in Mbps
FormatSpeedStrings(speed) ==
    {ToString(f.whole) \o "." \o ToString(f.tenth) \o " " \o f.unit :
        f \in FormatSpeedOutputs(speed * PerMbps)}

\* lastResult == nil, or five minutes have passed since the last fetch
shouldFetch == lastResult = Nil \/ now - lastFetchTime >= PollInterval

\* isNewer of the success branch
isNewer(result) ==
    lastKnownTimestamp = 0 \/ result.Timestamp > lastKnownTimestamp

\* the client of GetUDMProSpeedtest is dropped when the call returns
ClientDropped ==
    /\ client' = "nil"
    /\ IsUniFiOS' = FALSE
    /\ AuthToken' = ""
    /\ CSRFToken' = ""
    /\ session' = [AuthToken |-> "", CSRFToken |-> "", Expires |-> 0]
    /\ cache' = NewCache
    /\ depth' = 0

\* the lines are drawn and the goroutine sleeps five minutes
RedrawAndSleep ==
    /\ now' = now + PollInterval
    /\ screenPc' = "poll"

\* the rest of the iteration once GetUDMProSpeedtest has returned (result, e)
Returned(result, e) ==
    /\ polled' = [result |-> result, err |-> e]
    /\ IF e # NoPollError
       THEN /\ dmsg' = ErrorMessages(e)[1]
            /\ umsg' = ErrorMessages(e)[2]
            /\ tmsg' = ErrorMessages(e)[3]
            /\ UNCHANGED <<lastResult, lastKnownTimestamp, lastFetchTime>>
       ELSE /\ IF isNewer(Deref(result))
               THEN /\ lastResult' = result
                    /\ lastKnownTimestamp' = Deref(result).Timestamp
                    /\ dmsg' \in FormatSpeedStrings(Deref(result).DownloadMbps)
                    /\ umsg' \in FormatSpeedStrings(Deref(result).UploadMbps)
                    /\ tmsg' = GetRelativeTime(Deref(result).Timestamp)
               ELSE UNCHANGED <<lastResult, lastKnownTimestamp, dmsg, umsg, tmsg>>
            /\ lastFetchTime' = now
    /\ ClientDropped
    /\ RedrawAndSleep

\* what the screen's steps leave alone
ScreenFrame ==
    /\ UNCHANGED <<pc, op, range, reqs, ret, archive, loginAnswer>>
    /\ UNCHANGED <<formatVars, healthVars, lockVars>>

\* the start of an iteration: the cached result is shown, or
\* GetUDMProSpeedtest is called and creates its client with the root probe
PollCreate(probe) ==
    /\ screenPc = "poll"
    /\ now < MaxPolls * PollInterval
    /\ IF ~shouldFetch
       THEN /\ IF lastResult # Nil
               THEN /\ dmsg' \in FormatSpeedStrings(Deref(lastResult).DownloadMbps)
                    /\ umsg' \in FormatSpeedStrings(Deref(lastResult).UploadMbps)
                    /\ tmsg' = GetRelativeTime(Deref(lastResult).Timestamp)
               ELSE \E m \in {<<"waiting", "test at 2pm", "CST today">>,
                              <<"no test yet", "check after", "2pm CST">>} :
                        dmsg' = m[1] /\ umsg' = m[2] /\ tmsg' = m[3]
            /\ RedrawAndSleep
            /\ UNCHANGED <<client, IsUniFiOS, AuthToken, CSRFToken, session, cache, depth>>
            /\ UNCHANGED <<lastResult, lastKnownTimestamp, lastFetchTime, polled>>
       ELSE LET d == detectControllerType(probe) IN
            IF d.err # NoError
            THEN Returned(Nil, WrapChain("failed to create client",
                                         Wrap("failed to detect controller type", d.err), ""))
            ELSE /\ client' = "ok"
                 /\ IsUniFiOS' = d.IsUniFiOS
                 /\ session' = NewSession
                 /\ cache' = NewCache
                 /\ screenPc' = "login"
                 /\ UNCHANGED <<AuthToken, CSRFToken, depth, now>>
                 /\ UNCHANGED <<lastResult, lastKnownTimestamp, lastFetchTime, dmsg, umsg, tmsg, polled>>
    /\ ScreenFrame

\* client.Login() of GetUDMProSpeedtest and, when it succeeds, the cache
\* lookup of GetSpeedtestResults() on the new client
PollLogin(resp, text) ==
    /\ screenPc = "login"
    /\ LET o == LoginOutcome(resp) IN
         IF o.err # NoError
         THEN Returned(Nil, WrapChain("login failed", o.err, IF resp.err THEN text ELSE ""))
         ELSE /\ AuthToken' = o.AuthToken
              /\ CSRFToken' = o.CSRFToken
              /\ session' = o.session
              /\ IF getCachedSpeedtest # Nil
                 THEN Returned(getCachedSpeedtest, NoPollError)
                 ELSE /\ screenPc' = "fetch"
                      /\ depth' = 1
                      /\ UNCHANGED <<client, IsUniFiOS, cache, now>>
                      /\ UNCHANGED <<lastResult, lastKnownTimestamp, lastFetchTime,
                                     dmsg, umsg, tmsg, polled>>
    /\ ScreenFrame

\* a frame of GetSpeedtestResultsInRange() on the screen's client
PollFetch(resp, text) ==
    /\ screenPc = "fetch"
    /\ IF SlicePanics
       THEN /\ screenPc' = "panic"
            /\ UNCHANGED <<client, IsUniFiOS, AuthToken, CSRFToken, session, cache, depth, now>>
            /\ UNCHANGED <<lastResult, lastKnownTimestamp, lastFetchTime, dmsg, umsg, tmsg, polled>>
       ELSE IF resp.err
       THEN Returned(Nil, WrapChain("failed to fetch speedtest results",
                                    Err("speedtest request failed"), text))
       ELSE IF retriesAfter(resp.status)
       THEN /\ AuthToken' = ""
            /\ CSRFToken' = ""
            /\ session' = invalidatedSession
            /\ screenPc' = "relogin"
            /\ UNCHANGED <<client, IsUniFiOS, cache, depth, now>>
            /\ UNCHANGED <<lastResult, lastKnownTimestamp, lastFetchTime, dmsg, umsg, tmsg, polled>>
       ELSE IF resp.status # StatusOK
       THEN Returned(Nil, WrapChain("failed to fetch speedtest results",
                                    ErrStatus("speedtest request failed with status: %d", resp.status), ""))
       ELSE LET n == Normalize(resp.body) IN
            IF n.err # NoError
            THEN Returned(Nil, WrapChain("failed to fetch speedtest results", n.err, ""))
            ELSE Returned(n.result, NoPollError)
    /\ ScreenFrame

\* the Login() of the 401 branch on the screen's client
PollReLogin(resp, text) ==
    /\ screenPc = "relogin"
    /\ depth < MaxDepth
    /\ LET o == LoginOutcome(resp) IN
         IF o.err # NoError
         THEN Returned(Nil, [chain |-> <<"failed to fetch speedtest results", "re-authentication failed">>
                                         \o Chain(o.err),
                             status |-> o.err.status,
                             text |-> IF resp.err THEN text ELSE o.err.text])
         ELSE /\ AuthToken' = o.AuthToken
              /\ CSRFToken' = o.CSRFToken
              /\ session' = o.session
              /\ screenPc' = "fetch"
              /\ depth' = depth + 1
              /\ UNCHANGED <<client, IsUniFiOS, cache, now>>
              /\ UNCHANGED <<lastResult, lastKnownTimestamp, lastFetchTime, dmsg, umsg, tmsg, polled>>
    /\ ScreenFrame

\* buildSpeedTest has drawn the icons and started the goroutine (not in demo mode)
ScreenInit ==
    /\ NoClient /\ NotFormatting /\ MonitorOff /\ SingleCaller
    /\ screenPc = "poll"
    /\ lastResult = Nil
    /\ lastFetchTime = 0
    /\ lastKnownTimestamp = 0
    /\ dmsg = "fetching..."
    /\ umsg = "fetching..."
    /\ tmsg = "from UDM Pro"
    /\ polled = [result |-> Nil, err |-> NoPollError]

ScreenNext ==
    \/ \E probe \in ProbeResponses : PollCreate(probe)
    \/ \E resp \in ScreenLogins, text \in TransportTexts : PollLogin(resp, text)
    \/ \E resp \in ScreenFetches, text \in TransportTexts : PollFetch(resp, text)
    \/ \E resp \in ScreenLogins, text \in TransportTexts : PollReLogin(resp, text)

ScreenSpec == ScreenInit /\ [][ScreenNext]_vars

----------------------------------------------------------------------------
(* Properties of failed logins, empty archives, detection, concurrent
   fetches, the health monitor and the speedtest screen *)

C32_EmptyDataSameKind ==
    (FetchedAndDone /\ archive \in Wrappings(<<>>))
      => /\ ret.err # NoError
         /\ ret.err.kind # UnrecognizedFormat
         /\ \A b \in Wrappings(<<>>) : Normalize(b).err.kind = ret.err.kind

\* the root probe failed in the transport
FailedProbes == {p \in ProbeResponses : p.err # ""}

\* the kind of failure a transport error message stands for
TransportErrorClass(e) ==
    IF e \in {"timeout", "deadline exceeded"} THEN "timeout"
    ELSE IF e = "connection refused" THEN "refused"
    ELSE IF e = "no such host" THEN "host not found"
    ELSE "generic"

\* C33: when the root probe fails in the transport, construction returns no
\* client and an error; the errors of two transport failures are the same
\* exactly when both are timeouts (or deadlines exceeded), both refused
\* connections, both hosts not found, or both anything else, the last being
\* the generic detection failure; the only request sent is the probe.
C33_ProbeFailureKinds ==
    [][client = "nil" =>
       \A probe \in FailedProbes :
         NewUDMProClient(probe)
         => /\ client' = "nil"
            /\ ret'.op = "NewUDMProClient" /\ ret'.result = Nil
            /\ ret'.err.kind = "failed to detect controller type"
            /\ (TransportErrorClass(probe.err) = "generic")
                 <=> (ret'.err.inner = "failed to detect controller type")
            /\ \A other \in FailedProbes :
                 (TransportErrorClass(other.err) = TransportErrorClass(probe.err))
                   <=> (detectControllerType(other).err.kind = ret'.err.inner)
            /\ Len(reqs') = 1 /\ reqs'[1].kind = "probe"
            /\ UNCHANGED <<AuthToken, CSRFToken, session, cache>>
      ]_vars

\* a construction that failed because the host was not found
C33_Witness ==
    /\ pc = "done" /\ ret.op = "NewUDMProClient" /\ client = "nil"
    /\ ret.err.kind = "failed to detect controller type"
    /\ ret.err.inner = "host not found - invalid UDM Pro address"
    /\ Len(reqs) = 1 /\ reqs[1].kind = "probe"

\* caller i sends an archive request in this step
SendsFetchOf(i) == callers[i].pc = "fetch" /\ callers'[i] # callers[i]

\* the CSRF tokens of the sessions the gateway opens for the callers
LoggedInCSRFTokens ==
    {extractCSRFToken(TRUE, r.cookies[1].Value, "").CSRFToken :
        r \in {a \in ConcurrentLogins : ~a.err /\ a.status = StatusOK}} \ {""}

\* C34: on a UniFi OS client shared by two callers, an archive request that
\* a caller sends after its own Login() returned nil (the frame that follows
\* its 401 handling) carries in x-csrf-token the CSRF token of a session the
\* gateway opened, never an empty one.
C34_FetchAfterOwnLoginHasCSRF ==
    [][\A i \in Callers :
         (IsUniFiOS /\ SendsFetchOf(i) /\ callers[i].depth > 1)
           => csrfHeader \in LoggedInCSRFTokens
      ]_vars

\* the state of the rack LEDs that the README gives for a health band
ShowsBand(h) ==
    IF h = "HealthOK" THEN Solid(leds["rack:blue"]) /\ Dark(leds["rack:white"])
    ELSE IF h = "HealthWarning" THEN Solid(leds["rack:white"]) /\ Dark(leds["rack:blue"])
    ELSE Blinking(leds["rack:white"]) /\ Dark(leds["rack:blue"])

\* from startup, unless a sample reaches 80% or a UDM error is reported, the
\* rack LED becomes solid blue
C35_StartupShowsBlue ==
    <>(\/ ~AllLEDsExist
       \/ hasUDMError
       \/ evaluateHealth(cpuPercent, memPercent) # "HealthOK"
       \/ ShowsBand("HealthOK"))

\* the white LED blinks for a UDM error that has been cleared since (below
\* 95% it blinks for nothing else), and the monitor has sampled usages of
\* band h and goes on sampling
ClearedIn(h) ==
    /\ AllLEDsExist
    /\ ~hasUDMError
    /\ Blinking(leds["rack:white"])
    /\ monitorPc = "sample"
    /\ currentHealth = h
    /\ evaluateHealth(cpuPercent, memPercent) = h

\* after the error is cleared the LEDs come to show the band, unless the
\* usages leave the band or an error is reported again
C35_ClearedErrorLeavesBlink ==
    \A h \in {"HealthOK", "HealthWarning"} :
        ClearedIn(h) ~> (\/ ShowsBand(h)
                         \/ hasUDMError
                         \/ evaluateHealth(cpuPercent, memPercent) # h)

\* C35: with the monitor running, the rack LEDs eventually show the current
\* health: from startup with CPU and RAM below 80% and no UDM error the rack
\* LED becomes solid blue, and after a UDM error is cleared while CPU and RAM
\* stay in their band the rack LED leaves blinking white for the state of
\* that band.
C35_LEDsFollowHealth == C35_StartupShowsBlue /\ C35_ClearedErrorLeavesBlink

\* an iteration of the polling loop has ended and GetUDMProSpeedtest had
\* returned a result to it
FetchSucceeded == screenPc = "poll" /\ polled.result # Nil

\* C36: after an iteration of the polling loop whose fetch succeeded, the
\* first two lines of the screen are the download and upload speeds of the
\* most recent known result, whatever an earlier iteration has shown and
\* also when the fetched sample is no newer than the last known one.
C36_SuccessShowsSpeeds ==
    FetchSucceeded
      => /\ lastResult # Nil
         /\ dmsg \in FormatSpeedStrings(Deref(lastResult).DownloadMbps)
         /\ umsg \in FormatSpeedStrings(Deref(lastResult).UploadMbps)

\* an iteration of the polling loop has ended whose login the gateway had
\* rejected with a status
LoginRejected ==
    /\ screenPc = "poll"
    /\ polled.err.chain \in {<<"login failed", "login failed with status: %d (rate limited)">>,
                             <<"login failed", "login failed with status: %d">>}

\* C37: after an iteration whose login was rejected with 429 the screen
\* shows "rate limited", after one whose login was rejected with another
\* status it shows "auth error".
C37_RateLimitedShown ==
    LoginRejected
      => dmsg = (IF polled.err.status = StatusTooManyRequests THEN "rate limited" ELSE "auth error")

====
